---------------------------- MODULE Spec2Model ----------------------------
(***************************************************************************)
(* A model of octoprint.util.gcodeInterpreter: the value types Vector3D    *)
(* and MinMax3D, the tokenizer getCodeInt / getCodeFloat, and the scan     *)
(* gcode._load with its closures g0_g1_command and g2_g3_command.          *)
(*                                                                         *)
(* Representation.                                                         *)
(*  - A line is a sequence of one-character strings, so that the           *)
(*    tokenizer's substring scan is modelled character by character.       *)
(*    Besides characters a line may hold one opaque payload token, which   *)
(*    stands for the base64 text of a Cura profile block (base64 and zlib  *)
(*    are library code; the token names the outcome of decoding it).       *)
(*  - Python floats are fixed-point integers scaled by Unit (three         *)
(*    decimals); 25.4 is 25400.  Quotients are floored to that grid.       *)
(*  - An optional value (Python None) is the empty sequence, a present     *)
(*    value v is <<v>>.                                                    *)
(*  - An operation that can raise returns a record with the field exc,     *)
(*    "" when it returned normally, else the name of the exception.        *)
(***************************************************************************)
EXTENDS Integers, Sequences, FiniteSets, TLC

\* ------------------------------------------------------------------ numbers

\* The fixed-point scale of the model's floats.
Unit == 10 * 10 * 10

FP(n) == n * Unit

Abs(a) == IF a < 0 THEN -a ELSE a

Max2(a, b) == IF a >= b THEN a ELSE b

Min2(a, b) == IF a <= b THEN a ELSE b

\* a * b on fixed-point values (split so that the product stays in range).
FMul(a, b) ==
    (a \div Unit) * b + (a % Unit) * (b \div Unit) + ((a % Unit) * (b % Unit)) \div Unit

\* a / b on fixed-point values, b # 0 (rounded towards zero; split so that
\* the scaled dividend stays in range).
FDiv(a, b) ==
    LET q == (Abs(a) \div Abs(b)) * Unit + ((Abs(a) % Abs(b)) * Unit) \div Abs(b)
    IN  IF (a < 0) = (b < 0) THEN q ELSE -q

RECURSIVE IsqrtIn(_, _, _)
IsqrtIn(n, lo, hi) ==
    IF lo >= hi THEN lo
    ELSE LET mid == (lo + hi + 1) \div 2
         IN  IF mid * mid <= n THEN IsqrtIn(n, mid, hi) ELSE IsqrtIn(n, lo, mid - 1)

\* floor(sqrt(n)) for 0 <= n < 2^31
Isqrt(n) == IsqrtIn(n, 0, 46340)

RECURSIVE Pow10(_)
Pow10(k) == IF k <= 0 THEN 1 ELSE 10 * Pow10(k - 1)

\* ----------------------------------------------------------------- optional

None == <<>>

Some(v) == <<v>>

Val(o) == o[1]

\* ---------------------------------------------------------------- tokenizer

Digits == {"0", "1", "2", "3", "4", "5", "6", "7", "8", "9"}

Whitespace == {" ", "\n", "\r", "\t"}

DigitVal(c) ==
    CASE c = "0" -> 0 [] c = "1" -> 1 [] c = "2" -> 2 [] c = "3" -> 3
      [] c = "4" -> 4 [] c = "5" -> 5 [] c = "6" -> 6 [] c = "7" -> 7
      [] c = "8" -> 8 [] c = "9" -> 9

AllDigits(s) == \A i \in 1..Len(s) : s[i] \in Digits

RECURSIVE DigitsVal(_)
DigitsVal(s) ==
    IF s = <<>> THEN 0
    ELSE DigitsVal(SubSeq(s, 1, Len(s) - 1)) * 10 + DigitVal(s[Len(s)])

\* str.find(c, start): the first index >= from holding c, 0 when there is none
\* (indices are 1-based here; Python's -1 is 0).
Find(s, c, from) ==
    LET hits == {i \in from..Len(s) : s[i] = c}
    IN  IF hits = {} THEN 0 ELSE CHOOSE i \in hits : \A j \in hits : i <= j

\* str.strip(): leading and trailing whitespace removed.
Strip(s) ==
    LET keep == {i \in 1..Len(s) : s[i] \notin Whitespace}
    IN  IF keep = {} THEN <<>>
        ELSE SubSeq(s, CHOOSE i \in keep : \A j \in keep : i <= j,
                       CHOOSE i \in keep : \A j \in keep : i >= j)

\* A sign prefix split off: <<sign, rest>>.
Signed(s) ==
    IF s # <<>> /\ s[1] = "-" THEN <<-1, Tail(s)>>
    ELSE IF s # <<>> /\ s[1] = "+" THEN <<1, Tail(s)>>
    ELSE <<1, s>>

\* int(text): Some(value), or None for ValueError.
ParseInt(text) ==
    LET sg == Signed(Strip(text))
    IN  IF sg[2] # <<>> /\ AllDigits(sg[2]) THEN Some(sg[1] * DigitsVal(sg[2])) ELSE None

Lower(c) ==
    CASE c = "N" -> "n" [] c = "A" -> "a" [] c = "I" -> "i" [] c = "F" -> "f"
      [] c = "T" -> "t" [] c = "Y" -> "y" [] c = "E" -> "e" [] c = "O" -> "o"
      [] OTHER -> c

LowerSeq(s) == [i \in 1..Len(s) |-> Lower(s[i])]

\* float(text) as [kind, v]: kind "num" with the fixed-point value v, "nan",
\* "inf", or "err" for ValueError.  A decimal literal is digits with an
\* optional point and an optional exponent; a value beyond the double range
\* is "inf".  The stages below split the text: sign, exponent, point.
FloatKind(kind) == [kind |-> kind, v |-> 0]

\* the digits all (integer part of nInt digits, then the fraction) times
\* 10^(sh - 3), as a fixed-point value
DecimalValue(sign, all, nInt, k, sh) ==
    IF \A i \in 1..Len(all) : all[i] = "0" THEN [kind |-> "num", v |-> 0]
    ELSE IF nInt + k > 308 THEN FloatKind("inf")
    ELSE IF Len(all) + sh < -300 THEN [kind |-> "num", v |-> 0]
    ELSE IF sh >= 0 THEN [kind |-> "num", v |-> sign * DigitsVal(all) * Pow10(sh)]
    ELSE [kind |-> "num", v |-> sign * (DigitsVal(all) \div Pow10(-sh))]

Decimal(sign, ip, fp, k) ==
    IF AllDigits(ip) /\ AllDigits(fp) /\ Len(ip) + Len(fp) >= 1
    THEN DecimalValue(sign, ip \o fp, Len(ip), k, k - Len(fp) + 3)
    ELSE FloatKind("err")

Mantissa(sign, mant, dot, k) ==
    IF dot = 0 THEN Decimal(sign, mant, <<>>, k)
    ELSE Decimal(sign, SubSeq(mant, 1, dot - 1), SubSeq(mant, dot + 1, Len(mant)), k)

\* the exponent text after e: its value, capped, or err
Exponent(sign, mant, ex) ==
    IF ex[2] = <<>> \/ ~AllDigits(ex[2]) THEN FloatKind("err")
    ELSE IF Len(ex[2]) > 4 THEN Mantissa(sign, mant, Find(mant, ".", 1), ex[1] * 9999)
    ELSE Mantissa(sign, mant, Find(mant, ".", 1), ex[1] * DigitsVal(ex[2]))

FloatBody(sign, body, low, ePos) ==
    IF low = <<"n", "a", "n">> THEN FloatKind("nan")
    ELSE IF low \in {<<"i", "n", "f">>, <<"i", "n", "f", "i", "n", "i", "t", "y">>}
         THEN FloatKind("inf")
    ELSE IF ePos = 0 THEN Mantissa(sign, body, Find(body, ".", 1), 0)
    ELSE Exponent(sign, SubSeq(body, 1, ePos - 1),
                  Signed(SubSeq(body, ePos + 1, Len(body))))

FloatSigned(sg) == FloatBody(sg[1], sg[2], LowerSeq(sg[2]), Find(LowerSeq(sg[2]), "e", 1))

ParseFloat(text) == FloatSigned(Signed(Strip(text)))

\* The text the tokenizer hands to int() / float(): from just after the first
\* occurrence of the code letter up to the next space or the end of the line.
CodeText(line, code) ==
    LET n == Find(line, code, 1)
        m == Find(line, " ", n + 1)
    IN  IF m = 0 THEN SubSeq(line, n + 1, Len(line)) ELSE SubSeq(line, n + 1, m - 1)

getCodeInt(line, code) ==
    IF Find(line, code, 1) = 0 THEN None ELSE ParseInt(CodeText(line, code))

getCodeFloat(line, code) ==
    IF Find(line, code, 1) = 0 THEN None
    ELSE LET r == ParseFloat(CodeText(line, code))
         IN  IF r.kind = "num" THEN Some(r.v) ELSE None

\* ----------------------------------------------------------------- Vector3D

Vector3D(a, b, c) == [x |-> a, y |-> b, z |-> c]

Axes == {"x", "y", "z"}

VAdd(a, b) == [c \in Axes |-> a[c] + b[c]]

VSub(a, b) == [c \in Axes |-> a[c] - b[c]]

\* Vector3D.__mul__ with a float scalar
VMul(a, k) == [c \in Axes |-> FMul(k, a[c])]

VNeg(a) == [c \in Axes |-> -a[c]]

VAbs(a) == [c \in Axes |-> Abs(a[c])]

\* Vector3D.length; the squares are taken on a coarser grid when a component
\* is large, so that they stay in range.
VLength(a) ==
    LET m == Max2(Abs(a.x), Max2(Abs(a.y), Abs(a.z)))
        k == IF m <= 20000 THEN 1 ELSE IF m <= 2000000 THEN 100 ELSE 10000
        sq(v) == (Abs(v) \div k) * (Abs(v) \div k)
    IN  Isqrt(sq(a.x) + sq(a.y) + sq(a.z)) * k

\* ----------------------------------------------------------------- MinMax3D

\* MinMax3D.__init__: both vectors hold None on every axis.
MinMax3DInit == [min |-> [c \in Axes |-> None], max |-> [c \in Axes |-> None]]

\* variant: a stored zero taken for an unset component
MinMaxRecordZeroUnset(mm, coordinate) ==
    [min |-> [c \in Axes |->
                IF mm.min[c] \in {None, Some(0)} \/ coordinate[c] < Val(mm.min[c])
                THEN Some(coordinate[c]) ELSE mm.min[c]],
     max |-> [c \in Axes |->
                IF mm.max[c] \in {None, Some(0)} \/ coordinate[c] > Val(mm.max[c])
                THEN Some(coordinate[c]) ELSE mm.max[c]]]

\* MinMax3D.record
MinMaxRecord(mm, coordinate) ==
    [min |-> [c \in Axes |->
                IF mm.min[c] = None \/ coordinate[c] < Val(mm.min[c])
                THEN Some(coordinate[c]) ELSE mm.min[c]],
     max |-> [c \in Axes |->
                IF mm.max[c] = None \/ coordinate[c] > Val(mm.max[c])
                THEN Some(coordinate[c]) ELSE mm.max[c]]]

\* MinMax3D.size: abs(max - min); subtracting None raises TypeError.
MinMaxSize(mm) ==
    IF \E c \in Axes : mm.min[c] = None \/ mm.max[c] = None
    THEN [exc |-> "TypeError", size |-> Vector3D(0, 0, 0)]
    ELSE [exc |-> "",
          size |-> [c \in Axes |-> Abs(Val(mm.max[c]) - Val(mm.min[c]))]]

\* ------------------------------------------------------------ Python lists

\* list[i] is defined for -len <= i < len; the position it addresses, 1-based.
PyValid(s, i) == -Len(s) <= i /\ i < Len(s)

PyPos(s, i) == IF i >= 0 THEN i + 1 ELSE Len(s) + i + 1

PyGet(s, i) == s[PyPos(s, i)]

PySet(s, i, v) == [s EXCEPT ![PyPos(s, i)] = v]

RECURSIVE Zeros(_)
Zeros(n) == IF n <= 0 THEN <<>> ELSE <<0>> \o Zeros(n - 1)

\* the append loop of a tool change: zeros up to index cur
Extend(s, cur) == IF Len(s) <= cur THEN s \o Zeros(cur + 1 - Len(s)) ELSE s

\* ------------------------------------------------------------------- memory

\* The exception result of an operation that leaves the state as it found it.
Raise(name, mem, mm) == [exc |-> name, mem |-> mem, mm |-> mm]

Return(mem, mm) == [exc |-> "", mem |-> mem, mm |-> mm]

\* class memory of _load, built from the printer profile: the axis speeds
\* (plain numbers of the profile) and the nozzle offsets, a list of (x, y).
\* flowrate_ultiplicator is the attribute the M221 handler creates; it does
\* not exist (None) before.
MemoryInit(profile) ==
    [pos                    |-> Vector3D(0, 0, 0),
     posOffset              |-> Vector3D(0, 0, 0),
     currentE               |-> <<0>>,
     totalExtrusion         |-> <<0>>,
     maxExtrusion           |-> <<0>>,
     currentExtruder        |-> 0,
     totalMoveTimeMinute    |-> 0,
     absoluteE              |-> TRUE,
     scale                  |-> FP(1),
     posAbs                 |-> TRUE,
     fwretractTime          |-> 0,
     fwretractDist          |-> 0,
     fwrecoverTime          |-> 0,
     feedrate_multiplicator |-> FP(1),
     flowrate_multiplicator |-> FP(1),
     flowrate_ultiplicator  |-> None,
     feedrate               |-> IF Min2(profile.speedX, profile.speedY) = 0
                                THEN FP(2000)
                                ELSE FP(Min2(profile.speedX, profile.speedY)),
     offsets                |-> profile.offsets]

\* ------------------------------------------------------------ g0_g1_command

\* lines 232-239: the position after the move
MovedPos(mem, x, y, z) ==
    LET newPos == Vector3D(IF x # None THEN Val(x) ELSE mem.pos.x,
                           IF y # None THEN Val(y) ELSE mem.pos.y,
                           IF z # None THEN Val(z) ELSE mem.pos.z)
    IN  IF mem.posAbs
        THEN VAdd(VMul(newPos, mem.scale), mem.posOffset)
        ELSE VAdd(mem.pos, VMul(newPos, mem.scale))

\* variant: every F given is stored, zero included
MovedFeedrateAny(mem, f) == IF f # None THEN Val(f) ELSE mem.feedrate

\* lines 240-241
MovedFeedrate(mem, f) == IF f # None /\ Val(f) # 0 THEN Val(f) ELSE mem.feedrate

\* variant: the E word of an absolute move taken as the delta itself
RelativeENoSubtract(mem, e) == e

\* lines 244-246: e made relative (the tool's entry of currentE is valid)
RelativeE(mem, e) ==
    IF mem.absoluteE THEN e - PyGet(mem.currentE, mem.currentExtruder) ELSE e

\* variant: the maximum overwritten with the tool's current E
AddExtrusionMaxFromCurrent(mem, e) ==
    LET cur   == mem.currentExtruder
        total == PyGet(mem.totalExtrusion, cur) + e
    IN  [mem EXCEPT !.totalExtrusion = PySet(@, cur, total),
                    !.currentE = PySet(@, cur, PyGet(@, cur) + e),
                    !.maxExtrusion = PySet(@, cur, PyGet(mem.currentE, cur) + e)]

\* variant: the maximum left behind the total
AddExtrusionTotalOnly(mem, e) ==
    LET cur   == mem.currentExtruder
        total == PyGet(mem.totalExtrusion, cur) + e
    IN  [mem EXCEPT !.totalExtrusion = PySet(@, cur, total),
                    !.currentE = PySet(@, cur, PyGet(@, cur) + e)]

\* lines 251-254: a positive delta added to the tool's counters
AddExtrusion(mem, e) ==
    LET cur   == mem.currentExtruder
        total == PyGet(mem.totalExtrusion, cur) + e
    IN  [mem EXCEPT !.totalExtrusion = PySet(@, cur, total),
                    !.currentE = PySet(@, cur, PyGet(@, cur) + e),
                    !.maxExtrusion = PySet(@, cur, Max2(PyGet(@, cur), total))]

\* lines 258-265: the time of the move added to the total
AddMoveTime(mem, mm, oldPos, e) ==
    IF mem.feedrate = 0 THEN Raise("ZeroDivisionError", mem, mm)
    ELSE LET moveTimeXYZ == Abs(FDiv(VLength(VSub(oldPos, mem.pos)), mem.feedrate))
             extrudeTime == Abs(FDiv(e, mem.feedrate))
         IN  Return([mem EXCEPT !.totalMoveTimeMinute =
                                    @ + Max2(moveTimeXYZ, extrudeTime)], mm)

\* variant: every move recorded into the bounding box, extruding or not
g0_g1_command_recording(mem, mm, x, y, z, e, f) ==
    AddMoveTime([mem EXCEPT !.pos = MovedPos(mem, x, y, z),
                            !.feedrate = MovedFeedrate(mem, f)],
                MinMaxRecord(mm, MovedPos(mem, x, y, z)), mem.pos, 0)

\* g0_g1_command(x, y, z, e, f); x, y, z, e, f are optional values.
g0_g1_command(mem, mm, x, y, z, e, f) ==
    LET oldPos == mem.pos
        m1     == [mem EXCEPT !.pos = MovedPos(mem, x, y, z),
                              !.feedrate = MovedFeedrate(mem, f)]
        valid  == PyValid(mem.currentE, mem.currentExtruder)
    IN  IF e = None THEN AddMoveTime(m1, mm, oldPos, 0)
        ELSE IF mem.absoluteE /\ ~valid THEN Raise("IndexError", m1, mm)
        ELSE LET eRel == RelativeE(m1, Val(e))
             IN  IF eRel > 0
                 THEN IF ~valid THEN Raise("IndexError", m1, MinMaxRecord(mm, m1.pos))
                      ELSE AddMoveTime(AddExtrusion(m1, eRel),
                                       MinMaxRecord(mm, m1.pos), oldPos, eRel)
                 ELSE AddMoveTime(m1, mm, oldPos, eRel)

\* ------------------------------------------------------------ g2_g3_command

\* g2_g3_command(target, offset, e, f, clockwise) with target = (x, y, pos.z)
\* and offset = (i, j, 0).  Every call raises: math.hypot, the subtraction of
\* the tool's current E and target - center raise TypeError on a missing
\* operand, and line 284 reads self._memory, an attribute the gcode object
\* never has, before anything is written to memory.
g2_g3_command(mem, mm, x, y, i, j, e, f, clockwise) ==
    IF i = None \/ j = None THEN Raise("TypeError", mem, mm)
    ELSE IF mem.absoluteE /\ ~PyValid(mem.currentE, mem.currentExtruder)
         THEN Raise("IndexError", mem, mm)
    ELSE IF mem.absoluteE /\ e = None THEN Raise("TypeError", mem, mm)
    ELSE IF x = None \/ y = None THEN Raise("TypeError", mem, mm)
    ELSE Raise("AttributeError", mem, mm)

\* ------------------------------------------------------- comments (344-367)

StartsWith(s, p) == Len(s) >= Len(p) /\ SubSeq(s, 1, Len(p)) = p

FilamentDiameterKey ==
    <<"f", "i", "l", "a", "m", "e", "n", "t", "_",
      "d", "i", "a", "m", "e", "t", "e", "r">>

CuraProfilePrefix ==
    <<"C", "U", "R", "A", "_", "P", "R", "O", "F", "I", "L", "E", "_",
      "S", "T", "R", "I", "N", "G", ":">>

CuraOctoProfilePrefix ==
    <<"C", "U", "R", "A", "_", "O", "C", "T", "O", "_", "P", "R", "O", "F", "I", "L", "E", "_",
      "S", "T", "R", "I", "N", "G", ":">>

\* a float of the model: [kind |-> "num", v |-> fixed-point value], or kind
\* "nan" / "inf"
Num(v) == [kind |-> "num", v |-> v]

\* The opaque payload tokens: the base64 text of a deflated block that holds
\* filament_diameter=2.85 among its records, one that holds no such key, one
\* whose filament_diameter is not a number, and three damaged ones.
PayloadDiameter == "<b64:filament_diameter=2.85>"

PayloadOther == "<b64:layer_height=0.2>"

PayloadBadValue == "<b64:filament_diameter=abc>"

PayloadBadBase64 == "<b64:incorrect padding>"

PayloadBadZlib == "<b64:not a zlib stream>"

PayloadBadRecord == "<b64:record without =>"

\* _parseCuraProfileString(comment, prefix): [exc, value] where value is the
\* optional text the decoded dictionary holds for filament_diameter.  Text
\* that is no payload token does not decode.
parseCuraProfileString(comment, prefix) ==
    LET payload == SubSeq(comment, Len(prefix) + 1, Len(comment))
        tok     == IF Len(payload) = 1 THEN payload[1] ELSE ""
    IN  CASE tok = PayloadDiameter  -> [exc |-> "", value |-> Some(<<"2", ".", "8", "5">>)]
          [] tok = PayloadOther     -> [exc |-> "", value |-> None]
          [] tok = PayloadBadValue  -> [exc |-> "", value |-> Some(<<"a", "b", "c">>)]
          [] tok = PayloadBadBase64 -> [exc |-> "TypeError", value |-> None]
          [] tok = PayloadBadRecord -> [exc |-> "ValueError", value |-> None]
          [] OTHER                  -> [exc |-> "zlib.error", value |-> None]

\* lines 348-354: float(filamentValue), else float of the text before the
\* first comma, else 0.0
FilamentValue(value, comma) ==
    IF ParseFloat(value).kind # "err" THEN ParseFloat(value)
    ELSE IF comma = 0 THEN Num(0)
    ELSE IF ParseFloat(Strip(SubSeq(value, 1, comma - 1))).kind # "err"
         THEN ParseFloat(Strip(SubSeq(value, 1, comma - 1)))
    ELSE Num(0)

FilamentText(value) == FilamentValue(value, Find(value, ",", 1))

\* lines 347-354: the filament_diameter declaration; comment starts with the key
FilamentAt(fd, comment, eq) ==
    IF eq = 0 THEN [exc |-> "IndexError", fd |-> fd]
    ELSE [exc |-> "", fd |-> FilamentText(Strip(SubSeq(comment, eq + 1, Len(comment))))]

FilamentComment(fd, comment) == FilamentAt(fd, comment, Find(comment, "=", 1))

\* lines 362-366: the diameter taken from the decoded options
CuraOptions(fd, opts) ==
    IF opts.exc # "" THEN [exc |-> opts.exc, fd |-> fd]
    ELSE IF opts.value = None THEN [exc |-> "", fd |-> fd]
    ELSE IF ParseFloat(Val(opts.value)).kind # "err"
         THEN [exc |-> "", fd |-> ParseFloat(Val(opts.value))]
    ELSE [exc |-> "", fd |-> Num(0)]

\* lines 356-366: the Cura profile block
CuraComment(fd, comment) ==
    IF StartsWith(comment, SubSeq(CuraProfilePrefix, 1, 19))
    THEN CuraOptions(fd, parseCuraProfileString(comment, CuraProfilePrefix))
    ELSE CuraOptions(fd, parseCuraProfileString(comment, CuraOctoProfilePrefix))

\* lines 346-366: the metadata of a comment, [exc, fd]
Metadata(fd, comment) ==
    IF StartsWith(comment, FilamentDiameterKey) THEN FilamentComment(fd, comment)
    ELSE IF StartsWith(comment, SubSeq(CuraProfilePrefix, 1, 19))
            \/ StartsWith(comment, SubSeq(CuraOctoProfilePrefix, 1, 24))
    THEN CuraComment(fd, comment)
    ELSE [exc |-> "", fd |-> fd]

\* lines 344-345, 367: the metadata read, the line cut at the marker
CommentAt(line, semi, r) ==
    [exc |-> r.exc, fd |-> r.fd, line |-> SubSeq(line, 1, semi - 1)]

CommentFrom(fd, line, semi) ==
    IF semi = 0 THEN [exc |-> "", fd |-> fd, line |-> line]
    ELSE CommentAt(line, semi, Metadata(fd, Strip(SubSeq(line, semi + 1, Len(line)))))

\* lines 344-367: [exc, fd, line], the detected filament diameter and the line
\* cut at the comment marker
CommentStep(fd, line) == CommentFrom(fd, line, Find(line, ";", 1))

\* ------------------------------------------------------- dispatch (369-486)

\* settings().getInt(["gcodeAnalysis", "maxExtruders"]), the configured bound
maxExtruders == 1

\* an optional float times a multiplier (lines 381-385, 397-401)
Scaled(o, k) == IF o = None THEN None ELSE Some(FMul(k, Val(o)))

\* lines 374-387: G0 / G1
LinearMove(mem, mm, line) ==
    g0_g1_command(mem, mm,
                  getCodeFloat(line, "X"), getCodeFloat(line, "Y"), getCodeFloat(line, "Z"),
                  Scaled(getCodeFloat(line, "E"), mem.flowrate_multiplicator),
                  Scaled(getCodeFloat(line, "F"), mem.feedrate_multiplicator))

\* lines 388-403: G2 / G3
CircularMove(mem, mm, line, clockwise) ==
    g2_g3_command(mem, mm,
                  getCodeFloat(line, "X"), getCodeFloat(line, "Y"),
                  getCodeFloat(line, "I"), getCodeFloat(line, "J"),
                  Scaled(getCodeFloat(line, "E"), mem.flowrate_multiplicator),
                  Scaled(getCodeFloat(line, "F"), mem.feedrate_multiplicator),
                  clockwise)

\* lines 404-410: G4
Dwell(mem, line) ==
    LET S == getCodeFloat(line, "S")
        P == getCodeFloat(line, "P")
    IN  [mem EXCEPT !.totalMoveTimeMinute =
            @ + (IF S # None THEN FDiv(Val(S), FP(60)) ELSE 0)
              + (IF P # None THEN FDiv(FDiv(Val(P), FP(60)), FP(1000)) ELSE 0)]

\* lines 419-429: G28
Home(mem, line) ==
    LET x == getCodeFloat(line, "X")
        y == getCodeFloat(line, "Y")
        z == getCodeFloat(line, "Z")
    IN  IF x = None /\ y = None /\ z = None
        THEN [mem EXCEPT !.pos = Vector3D(0, 0, 0)]
        ELSE [mem EXCEPT !.pos = Vector3D(IF x # None THEN 0 ELSE mem.pos.x,
                                          IF y # None THEN 0 ELSE mem.pos.y,
                                          IF z # None THEN 0 ELSE mem.pos.z)]

\* lines 434-444: G92; the offset is rebased inside the branch taken when E
\* is given
SetPosition(mem, mm, line) ==
    LET x == getCodeFloat(line, "X")
        y == getCodeFloat(line, "Y")
        z == getCodeFloat(line, "Z")
        e == getCodeFloat(line, "E")
    IN  IF e = None THEN Return(mem, mm)
        ELSE IF ~PyValid(mem.currentE, mem.currentExtruder) THEN Raise("IndexError", mem, mm)
        ELSE Return([mem EXCEPT
                !.currentE = PySet(@, mem.currentExtruder, Val(e)),
                !.posOffset = Vector3D(
                    IF x # None THEN mem.pos.x - Val(x) ELSE mem.posOffset.x,
                    IF y # None THEN mem.pos.y - Val(y) ELSE mem.posOffset.y,
                    IF z # None THEN mem.pos.z - Val(z) ELSE mem.posOffset.z)], mm)

\* lines 373-444: the motion family
GCommand(mem, mm, line, G) ==
    CASE G \in {0, 1} -> LinearMove(mem, mm, line)
      [] G \in {2, 3} -> CircularMove(mem, mm, line, G = 2)
      [] G = 4        -> Return(Dwell(mem, line), mm)
      [] G = 10       -> Return([mem EXCEPT !.totalMoveTimeMinute = @ + mem.fwretractTime], mm)
      [] G = 11       -> Return([mem EXCEPT !.totalMoveTimeMinute = @ + mem.fwrecoverTime], mm)
      [] G = 20       -> Return([mem EXCEPT !.scale = 25400], mm)
      [] G = 21       -> Return([mem EXCEPT !.scale = FP(1)], mm)
      [] G = 28       -> Return(Home(mem, line), mm)
      [] G = 90       -> Return([mem EXCEPT !.posAbs = TRUE], mm)
      [] G = 91       -> Return([mem EXCEPT !.posAbs = FALSE], mm)
      [] G = 92       -> SetPosition(mem, mm, line)
      [] OTHER        -> Return(mem, mm)

\* variant: the retract distance not stored by M207
RetractSettingsNoDistance(mem, mm, line, M) ==
    LET s == getCodeFloat(line, "S")
        f == getCodeFloat(line, "F")
    IN  IF s = None \/ f = None THEN Return(mem, mm)
        ELSE IF Val(f) = 0 THEN Raise("ZeroDivisionError", mem, mm)
        ELSE IF M = 207
             THEN Return([mem EXCEPT !.fwretractTime = FDiv(Val(s), Val(f))], mm)
             ELSE Return([mem EXCEPT !.fwrecoverTime =
                                         FDiv(mem.fwretractDist + Val(s), Val(f))], mm)

\* lines 450-458: M207 / M208
RetractSettings(mem, mm, line, M) ==
    LET s == getCodeFloat(line, "S")
        f == getCodeFloat(line, "F")
    IN  IF s = None \/ f = None THEN Return(mem, mm)
        ELSE IF Val(f) = 0 THEN Raise("ZeroDivisionError", mem, mm)
        ELSE IF M = 207
             THEN Return([mem EXCEPT !.fwretractTime = FDiv(Val(s), Val(f)),
                                     !.fwretractDist = Val(s)], mm)
             ELSE Return([mem EXCEPT !.fwrecoverTime =
                                         FDiv(mem.fwretractDist + Val(s), Val(f))], mm)

\* lines 459-462: M220 / M221; the M221 handler assigns flowrate_ultiplicator
Override(mem, mm, line, M) ==
    LET S == getCodeInt(line, "S")
    IN  IF S = None THEN Raise("TypeError", mem, mm)
        ELSE IF M = 220
             THEN Return([mem EXCEPT !.feedrate_multiplicator = FDiv(FP(Val(S)), FP(100))], mm)
             ELSE Return([mem EXCEPT !.flowrate_ultiplicator =
                                         Some(FDiv(FP(Val(S)), FP(100)))], mm)

\* variant: M220 also rescales the feedrate already stored
MCommandRescaling(mem, mm, line, M) ==
    CASE M = 82            -> Return([mem EXCEPT !.absoluteE = TRUE], mm)
      [] M = 83            -> Return([mem EXCEPT !.absoluteE = FALSE], mm)
      [] M \in {207, 208}  -> RetractSettings(mem, mm, line, M)
      [] M = 220           ->
            IF Override(mem, mm, line, M).exc # "" THEN Override(mem, mm, line, M)
            ELSE Return([Override(mem, mm, line, M).mem EXCEPT
                            !.feedrate = FMul(FDiv(FP(Val(getCodeInt(line, "S"))), FP(100)), @)],
                        mm)
      [] M = 221           -> Override(mem, mm, line, M)
      [] OTHER             -> Return(mem, mm)

\* lines 445-462: the miscellaneous family
MCommand(mem, mm, line, M) ==
    CASE M = 82            -> Return([mem EXCEPT !.absoluteE = TRUE], mm)
      [] M = 83            -> Return([mem EXCEPT !.absoluteE = FALSE], mm)
      [] M \in {207, 208}  -> RetractSettings(mem, mm, line, M)
      [] M \in {220, 221}  -> Override(mem, mm, line, M)
      [] OTHER             -> Return(mem, mm)

\* lines 468-470, 474-476: the nozzle offset of a tool as [exc, v]; a tool
\* beyond the table has none, a negative index counts from the table's end
ToolOffset(offsets, tool) ==
    IF ~(tool < Len(offsets)) THEN [exc |-> "", v |-> Vector3D(0, 0, 0)]
    ELSE IF ~PyValid(offsets, tool) THEN [exc |-> "IndexError", v |-> Vector3D(0, 0, 0)]
    ELSE [exc |-> "", v |-> Vector3D(PyGet(offsets, tool)[1], PyGet(offsets, tool)[2], 0)]

\* variant: only the current-E array grown
GrowArraysCurrentOnly(mem) ==
    [mem EXCEPT !.currentE = Extend(@, mem.currentExtruder)]

\* lines 478-486: the three arrays grown to hold the active tool
GrowArrays(mem) ==
    [mem EXCEPT !.currentE = Extend(@, mem.currentExtruder),
                !.maxExtrusion = Extend(@, mem.currentExtruder),
                !.totalExtrusion = Extend(@, mem.currentExtruder)]

\* variant: the outgoing tool's offset left in the accumulated offset
TCommandKeepsOutgoing(mem, mm, line, T) ==
    IF T > maxExtruders THEN Return(mem, mm)
    ELSE IF ToolOffset(mem.offsets, T).exc # "" THEN Raise("IndexError", mem, mm)
    ELSE Return(GrowArrays([mem EXCEPT
            !.currentExtruder = T,
            !.posOffset = VAdd(@, ToolOffset(mem.offsets, T).v)]), mm)

\* variant: the selected tool not compared with the configured maximum
TCommandUnchecked(mem, mm, line, T) ==
    IF ToolOffset(mem.offsets, mem.currentExtruder).exc # "" \/ ToolOffset(mem.offsets, T).exc # ""
    THEN Raise("IndexError", mem, mm)
    ELSE Return(GrowArrays([mem EXCEPT
            !.currentExtruder = T,
            !.posOffset = VAdd(VSub(@, ToolOffset(mem.offsets, mem.currentExtruder).v),
                               ToolOffset(mem.offsets, T).v)]), mm)

\* lines 464-486: the tool-select family
TCommand(mem, mm, line, T) ==
    LET out == ToolOffset(mem.offsets, mem.currentExtruder)
        in  == ToolOffset(mem.offsets, T)
        m1  == [mem EXCEPT !.posOffset = VSub(@, out.v)]
        m2  == [m1 EXCEPT !.currentExtruder = T]
        m3  == [m2 EXCEPT !.posOffset = VAdd(@, in.v)]
    IN  IF T > maxExtruders THEN Return(mem, mm)
        ELSE IF out.exc # "" THEN Raise(out.exc, mem, mm)
        ELSE IF in.exc # "" THEN Raise(in.exc, m2, mm)
        ELSE Return(GrowArrays(m3), mm)

\* variant: the tool-select family looked for first
DispatchToolFirst(mem, mm, line) ==
    IF getCodeInt(line, "T") # None
    THEN TCommand(mem, mm, line, Val(getCodeInt(line, "T")))
    ELSE IF getCodeInt(line, "G") # None
    THEN GCommand(mem, mm, line, Val(getCodeInt(line, "G")))
    ELSE IF getCodeInt(line, "M") # None
    THEN MCommand(mem, mm, line, Val(getCodeInt(line, "M")))
    ELSE Return(mem, mm)

\* lines 369-486: one family per line, G before M before T
Dispatch(mem, mm, line) ==
    LET G == getCodeInt(line, "G")
        M == getCodeInt(line, "M")
        T == getCodeInt(line, "T")
    IN  IF G # None THEN GCommand(mem, mm, line, Val(G))
        ELSE IF M # None THEN MCommand(mem, mm, line, Val(M))
        ELSE IF T # None THEN TCommand(mem, mm, line, Val(T))
        ELSE Return(mem, mm)

\* ------------------------------------------------------------ finalization

\* math.pi on the fixed-point grid
Pi == 3142

\* line 498: (amount * (pi * radius * radius)) / 1000 with radius = diameter / 2
Volume(amount, fd) ==
    LET radius == FDiv(fd.v, FP(2))
    IN  IF fd.kind = "num"
        THEN Num(FDiv(FMul(amount, FMul(Pi, FMul(radius, radius))), FP(1000)))
        ELSE IF fd.kind = "nan" \/ amount = 0 THEN [kind |-> "nan", v |-> 0]
        ELSE [kind |-> "inf", v |-> 0]

\* variant: the reported lengths taken from the current E values
ResultFromCurrentE(mem, fd) ==
    [extrusionAmount     |-> mem.currentE,
     extrusionVolume     |-> [i \in 1..Len(mem.currentE) |-> Volume(mem.currentE[i], fd)],
     totalMoveTimeMinute |-> mem.totalMoveTimeMinute]

\* lines 494-499: the result fields [extrusionAmount, extrusionVolume,
\* totalMoveTimeMinute]
Result(mem, fd) ==
    [extrusionAmount     |-> mem.maxExtrusion,
     extrusionVolume     |-> [i \in 1..Len(mem.maxExtrusion) |-> Volume(mem.maxExtrusion[i], fd)],
     totalMoveTimeMinute |-> mem.totalMoveTimeMinute]

\* ---------------------------------------------------------- the scan: state

\* the cadence of the periodic progress callback (line 339)
ProgressEvery == 1000

\* The longest input whose lines are drawn freely from the vocabulary.
MaxLines == 3

VARIABLES
    cfg,                \* the call: printer profile, hooks, kind of input, its length
    pc,                 \* where _load stands
    exc,                \* the exception that ended the scan, "" when none
    abort,              \* self._abort
    filePos,            \* filePos: the lines taken from the input
    readBytes,          \* readBytes
    line,               \* the line of the running iteration
    memory,             \* class memory
    minMax,             \* self._minMax
    filamentDiameter,   \* self._filamentDiameter
    result,             \* self.extrusionAmount, extrusionVolume, totalMoveTimeMinute
    hist,               \* history: the lines taken from a short input
    abortAt,            \* history: filePos and pc when abort() was called
    progressLog,        \* history: the values handed to the progress callback
    callbackRaised,     \* history: how many callback invocations raised
    throttleCount,      \* history: the invocations of the throttle hook
    peakExtrusion,      \* history: per tool, the largest cumulative extrusion seen
    trace,              \* history: class memory after each processed line of a short input
    recorded,           \* history: the points recorded into a MinMax3D used on its own
    returned,           \* the calls of functions made on their own: arguments and result
    objects             \* the Vector3D objects made on their own, by identity

vars == <<cfg, pc, exc, abort, filePos, readBytes, line, memory, minMax,
          filamentDiameter, result, hist, abortAt, progressLog, callbackRaised,
          throttleCount, peakExtrusion, trace, recorded, returned, objects>>

\* gcode.__init__: the result fields before any scan
ResultInit ==
    [extrusionAmount |-> <<0>>, extrusionVolume |-> <<Num(0)>>, totalMoveTimeMinute |-> 0]

\* Printer profiles: the axis speeds and the nozzle offsets (fixed-point).
ProfileTwoTools ==
    [speedX |-> 100, speedY |-> 50, offsets |-> <<<<0, 0>>, <<FP(20), FP(5)>>>>]

ProfileNoSpeed == [speedX |-> 0, speedY |-> 0, offsets |-> <<>>]

\* a nozzle offset for each of two tools, the first one not at the origin
ProfileOffsetBoth ==
    [speedX |-> 100, speedY |-> 50, offsets |-> <<<<FP(1), FP(2)>>, <<FP(20), FP(5)>>>>]

\* a table that holds the first tool only
ProfileOffsetOne == [speedX |-> 100, speedY |-> 50, offsets |-> <<<<FP(3), FP(1)>>>>]

\* The calls of _load: an in-memory list with both hooks, the stream load()
\* opens (neither a file nor a list) without hooks, a file object with a
\* progress callback only.
Configs ==
    {[kind |-> "list",   callback |-> TRUE,  throttle |-> TRUE,  fileSize |-> 0,
      profile |-> ProfileTwoTools],
     [kind |-> "stream", callback |-> FALSE, throttle |-> FALSE, fileSize |-> 0,
      profile |-> ProfileNoSpeed],
     [kind |-> "file",   callback |-> TRUE,  throttle |-> FALSE, fileSize |-> 4096,
      profile |-> ProfileTwoTools]}

\* an X axis whose configured speed is zero
ProfileXStill == [speedX |-> 0, speedY |-> 50, offsets |-> <<>>]

\* The calls of the feedrate checks: one per pair of axis speeds.
FeedConfigs ==
    {[kind |-> "list", callback |-> TRUE, throttle |-> TRUE, fileSize |-> 0, profile |-> p] :
        p \in {ProfileTwoTools, ProfileNoSpeed, ProfileXStill}}

\* The calls of the tool checks: one per nozzle-offset table.
ToolConfigs ==
    {[kind |-> "list", callback |-> TRUE, throttle |-> TRUE, fileSize |-> 0, profile |-> p] :
        p \in {ProfileOffsetBoth, ProfileOffsetOne, ProfileNoSpeed}}

\* gcode.__init__ followed by the entry of _load (lines 162-172, 203-227),
\* for an input of one of the given lengths
InitWith(calls, lengths) ==
    /\ cfg \in {[call |-> c, nLines |-> n] : c \in calls, n \in lengths}
    /\ pc = "check"
    /\ exc = ""
    /\ abort = FALSE
    /\ filePos = 0
    /\ readBytes = 0
    /\ line = <<>>
    /\ memory = MemoryInit(cfg.call.profile)
    /\ minMax = MinMax3DInit
    /\ filamentDiameter = Num(0)
    /\ result = ResultInit
    /\ hist = <<>>
    /\ abortAt = None
    /\ progressLog = <<>>
    /\ callbackRaised = 0
    /\ throttleCount = 0
    /\ peakExtrusion = <<0>>
    /\ trace = <<>>
    /\ recorded = <<>>
    /\ returned = None
    /\ objects = <<>>

Terminal == pc \in {"done", "aborted", "raised"}

\* ------------------------------------------------------------ the input

\* \n
LineBlank == <<"\n">>

\* G1 X10 Y0 E5 F600
LineMoveE5 ==
    <<"G", "1", " ", "X", "1", "0", " ", "Y", "0", " ", "E", "5", " ", "F", "6", "0",
      "0">>

\* M220 S50
LineFeedOverride == <<"M", "2", "2", "0", " ", "S", "5", "0">>

\* M220
LineFeedOverrideNoS == <<"M", "2", "2", "0">>

\* M221 X
LineFlowOverrideNoS == <<"M", "2", "2", "1", " ", "X">>

\* M207 S1 F0
LineRetractF0 == <<"M", "2", "0", "7", " ", "S", "1", " ", "F", "0">>

\* G2 X1 Y1 I1 J0 E1
LineArc ==
    <<"G", "2", " ", "X", "1", " ", "Y", "1", " ", "I", "1", " ", "J", "0", " ", "E",
      "1">>

\* G3 X1 Y1
LineArcNoCentre == <<"G", "3", " ", "X", "1", " ", "Y", "1">>

\* T1
LineTool1 == <<"T", "1">>

\* M82 ;filament_diameter=1.75
LineDiameter ==
    <<"M", "8", "2", " ", ";", "f", "i", "l", "a", "m", "e", "n", "t", "_", "d", "i",
      "a", "m", "e", "t", "e", "r", "=", "1", ".", "7", "5">>

\* ;filament_diameter
LineDiameterNoEq ==
    <<";", "f", "i", "l", "a", "m", "e", "n", "t", "_", "d", "i", "a", "m", "e", "t",
      "e", "r">>

\* ; filament_diameter = abc
LineDiameterBad ==
    <<";", " ", "f", "i", "l", "a", "m", "e", "n", "t", "_", "d", "i", "a", "m", "e",
      "t", "e", "r", " ", "=", " ", "a", "b", "c">>

\* ;CURA_PROFILE_STRING:PayloadDiameter
LineCura ==
    <<";", "C", "U", "R", "A", "_", "P", "R", "O", "F", "I", "L", "E", "_", "S", "T",
      "R", "I", "N", "G", ":", PayloadDiameter>>

\* ;CURA_PROFILE_STRING:PayloadBadBase64
LineCuraBadBase64 ==
    <<";", "C", "U", "R", "A", "_", "P", "R", "O", "F", "I", "L", "E", "_", "S", "T",
      "R", "I", "N", "G", ":", "{", "P", "a", "y", "l", "o", "a", "d", "B", "a", "d",
      "B", "a", "s", "e", "6", "4", "}">>

\* ;CURA_OCTO_PROFILE_STRING:PayloadBadRecord
LineCuraBadRecord ==
    <<";", "C", "U", "R", "A", "_", "O", "C", "T", "O", "_", "P", "R", "O", "F", "I",
      "L", "E", "_", "S", "T", "R", "I", "N", "G", ":", PayloadBadRecord>>

\* The lines of the scan-level checks: moves, overrides, arcs, a tool change,
\* comments with metadata, each in a well-formed and a malformed variant.
ScanLines ==
    {LineBlank, LineMoveE5, LineFeedOverride, LineFeedOverrideNoS, LineFlowOverrideNoS,
     LineRetractF0, LineArc, LineArcNoCentre, LineTool1, LineDiameter, LineDiameterNoEq,
     LineDiameterBad, LineCura, LineCuraBadBase64, LineCuraBadRecord}

\* G90
LineAbsolute == <<"G", "9", "0">>

\* G1 X5 E4
LineMoveE4 == <<"G", "1", " ", "X", "5", " ", "E", "4">>

\* G0 E6
LineMoveE6 == <<"G", "0", " ", "E", "6">>

\* G1 E-1 F60
LineRetract == <<"G", "1", " ", "E", "-", "1", " ", "F", "6", "0">>

\* M83
LineRelativeE == <<"M", "8", "3">>

\* G92 E0
LineResetE == <<"G", "9", "2", " ", "E", "0">>

\* T0
LineTool0 == <<"T", "0">>

\* T2
LineTool2 == <<"T", "2">>

\* T-1
LineToolMinus1 == <<"T", "-", "1">>

\* The lines of the extrusion checks: absolute and relative E moves, a
\* retraction, an E reset, tool changes within and beyond the configured
\* maximum, a filament diameter.
ExtrusionLines ==
    {LineAbsolute, LineMoveE5, LineMoveE4, LineMoveE6, LineRetract, LineRelativeE,
     LineResetE, LineTool0, LineTool1, LineTool2, LineToolMinus1, LineDiameter}

\* G1 E1
LinePrime == <<"G", "1", " ", "E", "1">>

\* G1 X10 Y5
LineTravel == <<"G", "1", " ", "X", "1", "0", " ", "Y", "5">>

\* G0 X3 Z2
LineTravelZ == <<"G", "0", " ", "X", "3", " ", "Z", "2">>

\* G91
LineRelative == <<"G", "9", "1">>

\* G1 Y1
LineMoveY1 == <<"G", "1", " ", "Y", "1">>

\* G92 X5
LineSetX == <<"G", "9", "2", " ", "X", "5">>

\* G92 X5 E0
LineSetXE == <<"G", "9", "2", " ", "X", "5", " ", "E", "0">>

\* G1 X5
LineMoveX5 == <<"G", "1", " ", "X", "5">>

\* G20
LineInches == <<"G", "2", "0">>

\* G28
LineHome == <<"G", "2", "8">>

\* G28 X
LineHomeX == <<"G", "2", "8", " ", "X">>

\* G28 X0
LineHomeX0 == <<"G", "2", "8", " ", "X", "0">>

\* G2 X0 Y0 I1 J0 E1
LineFullCircle ==
    <<"G", "2", " ", "X", "0", " ", "Y", "0", " ", "I", "1", " ", "J", "0", " ", "E",
      "1">>

\* The lines of the motion checks: travel moves, a retraction, an extruding
\* move, the relative mode, G92 with and without E, inches, home lines with
\* and without axis words, a full circle at the origin.
MotionLines ==
    {LineTravel, LineTravelZ, LineRetract, LineMoveE5, LineRelative, LineMoveY1,
     LineSetX, LineSetXE, LineMoveX5, LineInches, LineHome, LineHomeX, LineHomeX0,
     LineFullCircle}

\* G1 X1 T1
LineMoveWithTool == <<"G", "1", " ", "X", "1", " ", "T", "1">>

\* M83 T1
LineRelativeEWithTool == <<"M", "8", "3", " ", "T", "1">>

\* G90 M83
LineAbsoluteWithM == <<"G", "9", "0", " ", "M", "8", "3">>

\* M221 S50
LineFlowOverride == <<"M", "2", "2", "1", " ", "S", "5", "0">>

\* The lines of the tool and override checks: tool changes within and beyond
\* the configured maximum, a G92 that moves the offset, lines that carry two
\* families, the two overrides, a move with E and F.
ToolLines ==
    {LineTool0, LineTool1, LineTool2, LineToolMinus1, LineSetXE, LineMoveE5,
     LineMoveWithTool, LineRelativeEWithTool, LineAbsoluteWithM, LineFlowOverride,
     LineFeedOverride}

\* M207 S1 F60
LineRetractSet == <<"M", "2", "0", "7", " ", "S", "1", " ", "F", "6", "0">>


\* M207 S3 F30
LineRetractSetLong == <<"M", "2", "0", "7", " ", "S", "3", " ", "F", "3", "0">>


\* M208 S1 F60
LineRecoverSet == <<"M", "2", "0", "8", " ", "S", "1", " ", "F", "6", "0">>


\* M207 S2
LineRetractSetNoF == <<"M", "2", "0", "7", " ", "S", "2">>


\* M208 F60
LineRecoverSetNoS == <<"M", "2", "0", "8", " ", "F", "6", "0">>


\* G10
LineFirmwareRetract == <<"G", "1", "0">>


\* G11
LineFirmwareRecover == <<"G", "1", "1">>

\* The lines of the firmware-retract checks: retract and recover settings,
\* complete, lacking a word and with a zero feedrate, and the retract and
\* recover commands.
RetractLines ==
    {LineRetractSet, LineRetractSetLong, LineRecoverSet, LineRetractSetNoF,
     LineRecoverSetNoS, LineRetractF0, LineFirmwareRetract, LineFirmwareRecover}

\* G21
LineMillimetres == <<"G", "2", "1">>


\* M82
LineAbsoluteE == <<"M", "8", "2">>

\* The lines of the settings checks: the units, the position and extrusion
\* modes, the two overrides, and what gives the state something to keep: an
\* extruding move, a move read after the setting, a tool change, a G92.
SettingsLines ==
    {LineInches, LineMillimetres, LineAbsolute, LineRelative, LineAbsoluteE,
     LineRelativeE, LineFeedOverride, LineFlowOverride, LineMoveE5, LineMoveX5,
     LineTool1, LineSetXE}

\* G1 X1 F0
LineMoveF0 == <<"G", "1", " ", "X", "1", " ", "F", "0">>


\* M220 S0
LineFeedOverrideZero == <<"M", "2", "2", "0", " ", "S", "0">>


\* G1 F1200
LineFeedOnly == <<"G", "1", " ", "F", "1", "2", "0", "0">>

\* The lines of the feedrate checks: moves with F, with F0 and without F, a
\* retraction with F, and feed overrides of 50 % and of 0 %.
FeedLines ==
    {LineMoveF0, LineFeedOverrideZero, LineFeedOnly, LineMoveE5, LineMoveX5,
     LineRetract, LineFeedOverride}

\* ------------------------------------------------------- the scan: actions

\* gcode.abort(), called by the owner of the analysis at any moment
Abort ==
    /\ ~Terminal
    /\ ~abort
    /\ abort' = TRUE
    /\ abortAt' = Some([filePos |-> filePos, pc |-> pc])
    /\ UNCHANGED <<cfg, pc, exc, filePos, readBytes, line, memory, minMax,
                   filamentDiameter, result, hist, progressLog, callbackRaised,
                   throttleCount, peakExtrusion,
                   trace, recorded, returned, objects>>

\* line 326: the flag as the head of an iteration reads it
AbortChecked == abort

\* a loop head that leaves the loop instead of raising
RaiseAbortedBreaks ==
    /\ pc = "check"
    /\ filePos < cfg.nLines
    /\ AbortChecked
    /\ pc' = "final"
    /\ UNCHANGED <<cfg, exc, abort, filePos, readBytes, line, memory, minMax,
                   filamentDiameter, result, hist, abortAt, progressLog,
                   callbackRaised, throttleCount, peakExtrusion,
                   trace, recorded, returned, objects>>

\* lines 325-327: the check at the head of an iteration
RaiseAborted ==
    /\ pc = "check"
    /\ filePos < cfg.nLines
    /\ AbortChecked
    /\ pc' = "aborted"
    /\ exc' = "AnalysisAborted"
    /\ UNCHANGED <<cfg, abort, filePos, readBytes, line, memory, minMax,
                   filamentDiameter, result, hist, abortAt, progressLog,
                   callbackRaised, throttleCount, peakExtrusion,
                   trace, recorded, returned, objects>>

\* lines 331-336: the percentage, optional; [exc, v]
Percentage(call, nLines, pos, bytes) ==
    IF call.kind = "file"
    THEN IF call.fileSize = 0 THEN [exc |-> "ZeroDivisionError", v |-> None]
         ELSE [exc |-> "", v |-> Some(FDiv(FP(bytes), FP(call.fileSize)))]
    ELSE IF call.kind = "list" THEN [exc |-> "", v |-> Some(FDiv(FP(pos), FP(nLines)))]
    ELSE [exc |-> "", v |-> None]

\* lines 339: whether the periodic callback is invoked
ProgressDue(call, pos, percentage) ==
    call.callback /\ pos % ProgressEvery = 0 /\ percentage # None

\* lines 325-342: a line is taken from the input (l), the counters advance and
\* the periodic progress callback runs, its exception swallowed.  An input
\* longer than MaxLines holds blank lines only.
TakeLine(l) ==
    /\ pc = "check"
    /\ filePos < cfg.nLines
    /\ ~AbortChecked
    /\ cfg.nLines <= MaxLines \/ l = LineBlank
    /\ LET p == Percentage(cfg.call, cfg.nLines, filePos + 1, readBytes + Len(l))
       IN  /\ filePos' = filePos + 1
           /\ readBytes' = readBytes + Len(l)
           /\ hist' = IF cfg.nLines <= MaxLines THEN Append(hist, l) ELSE hist
           /\ IF p.exc # ""
              THEN /\ pc' = "raised"
                   /\ exc' = p.exc
                   /\ line' = <<>>
                   /\ UNCHANGED <<progressLog, callbackRaised>>
              ELSE /\ pc' = "line"
                   /\ exc' = exc
                   /\ line' = l
                   /\ \E raises \in IF ProgressDue(cfg.call, filePos + 1, p.v)
                                    THEN BOOLEAN ELSE {FALSE} :
                        /\ progressLog' = IF ProgressDue(cfg.call, filePos + 1, p.v)
                                          THEN Append(progressLog, Val(p.v))
                                          ELSE progressLog
                        /\ callbackRaised' = callbackRaised + (IF raises THEN 1 ELSE 0)
    /\ UNCHANGED <<cfg, abort, memory, minMax, filamentDiameter, result, abortAt,
                   throttleCount, peakExtrusion,
                   trace, recorded, returned, objects>>

\* the pointwise maximum of the recorded peaks and the cumulative extrusion
Peak(peak, total) ==
    [i \in 1..Max2(Len(peak), Len(total)) |->
        IF i > Len(peak) THEN total[i]
        ELSE IF i > Len(total) THEN peak[i]
        ELSE Max2(peak[i], total[i])]

\* lines 344-486: the comment of the line, then its command
ProcessLine ==
    /\ pc = "line"
    /\ LET c == CommentStep(filamentDiameter, line)
           d == Dispatch(memory, minMax, c.line)
       IN  IF c.exc # ""
           THEN /\ pc' = "raised"
                /\ exc' = c.exc
                /\ trace' = IF cfg.nLines <= MaxLines THEN Append(trace, memory) ELSE trace
                /\ UNCHANGED <<memory, minMax, filamentDiameter, peakExtrusion>>
           ELSE /\ filamentDiameter' = c.fd
                /\ memory' = d.mem
                /\ minMax' = d.mm
                /\ pc' = IF d.exc # "" THEN "raised" ELSE "throttle"
                /\ exc' = d.exc
                /\ peakExtrusion' = Peak(peakExtrusion, d.mem.totalExtrusion)
                /\ trace' = IF cfg.nLines <= MaxLines THEN Append(trace, d.mem) ELSE trace
    /\ line' = <<>>
    /\ UNCHANGED <<cfg, abort, filePos, readBytes, result, hist, abortAt,
                   progressLog, callbackRaised, throttleCount, recorded, returned, objects>>

\* an iteration that writes the result fields as it goes
ThrottlePublishing ==
    /\ pc = "throttle"
    /\ pc' = "check"
    /\ result' = Result(memory, filamentDiameter)
    /\ throttleCount' = throttleCount + (IF cfg.call.throttle THEN 1 ELSE 0)
    /\ UNCHANGED <<cfg, exc, abort, filePos, readBytes, line, memory, minMax,
                   filamentDiameter, hist, abortAt, progressLog, callbackRaised, peakExtrusion,
                   trace, recorded, returned, objects>>

\* an iteration that skips the hook after a blank line
ThrottleSkippingBlank ==
    /\ pc = "throttle"
    /\ pc' = "check"
    /\ throttleCount' = throttleCount
            + (IF cfg.call.throttle /\ ~(cfg.nLines <= MaxLines /\ hist[filePos] = LineBlank)
               THEN 1 ELSE 0)
    /\ UNCHANGED <<cfg, exc, abort, filePos, readBytes, line, memory, minMax,
                   filamentDiameter, result, hist, abortAt, progressLog,
                   callbackRaised, peakExtrusion,
                   trace, recorded, returned, objects>>

\* lines 488-489: the throttle hook, which returns
Throttle ==
    /\ pc = "throttle"
    /\ pc' = "check"
    /\ throttleCount' = throttleCount + (IF cfg.call.throttle THEN 1 ELSE 0)
    /\ UNCHANGED <<cfg, exc, abort, filePos, readBytes, line, memory, minMax,
                   filamentDiameter, result, hist, abortAt, progressLog,
                   callbackRaised, peakExtrusion,
                   trace, recorded, returned, objects>>

\* line 325: the input is exhausted and the loop ends
EndOfInput ==
    /\ pc = "check"
    /\ filePos = cfg.nLines
    /\ pc' = "final"
    /\ UNCHANGED <<cfg, exc, abort, filePos, readBytes, line, memory, minMax,
                   filamentDiameter, result, hist, abortAt, progressLog,
                   callbackRaised, throttleCount, peakExtrusion,
                   trace, recorded, returned, objects>>

\* lines 491-492: the terminal progress callback, outside any try
FinalCallback ==
    /\ pc = "final"
    /\ \E raises \in IF cfg.call.callback THEN BOOLEAN ELSE {FALSE} :
         /\ pc' = IF raises THEN "raised" ELSE "finish"
         /\ exc' = IF raises THEN "CallbackError" ELSE exc
         /\ callbackRaised' = callbackRaised + (IF raises THEN 1 ELSE 0)
    /\ progressLog' = IF cfg.call.callback THEN Append(progressLog, FP(100)) ELSE progressLog
    /\ UNCHANGED <<cfg, abort, filePos, readBytes, line, memory, minMax,
                   filamentDiameter, result, hist, abortAt, throttleCount, peakExtrusion,
                   trace, recorded, returned, objects>>

\* lines 494-499: the result is populated and _load returns
Finish ==
    /\ pc = "finish"
    /\ result' = Result(memory, filamentDiameter)
    /\ pc' = "done"
    /\ UNCHANGED <<cfg, exc, abort, filePos, readBytes, line, memory, minMax,
                   filamentDiameter, hist, abortAt, progressLog, callbackRaised,
                   throttleCount, peakExtrusion,
                   trace, recorded, returned, objects>>

\* the steps of _load apart from taking a line
Step ==
    \/ Abort
    \/ RaiseAborted
    \/ ProcessLine
    \/ Throttle
    \/ EndOfInput
    \/ FinalCallback
    \/ Finish

Init == InitWith(Configs, 0..MaxLines \cup {ProgressEvery})

Next ==
    \/ Step
    \/ \E l \in ScanLines : TakeLine(l)

Spec == Init /\ [][Next]_vars

InitExtrusion == InitWith({c \in Configs : c.kind # "file"}, 0..MaxLines)

NextExtrusion ==
    \/ Step
    \/ \E l \in ExtrusionLines : TakeLine(l)

SpecExtrusion == InitExtrusion /\ [][NextExtrusion]_vars

InitMotion == InitWith({c \in Configs : c.kind # "file"}, 0..MaxLines)

NextMotion ==
    \/ Step
    \/ \E l \in MotionLines : TakeLine(l)

SpecMotion == InitMotion /\ [][NextMotion]_vars

InitTools == InitWith(ToolConfigs, 0..MaxLines)

NextTools ==
    \/ Step
    \/ \E l \in ToolLines : TakeLine(l)

SpecTools == InitTools /\ [][NextTools]_vars

InitRetract == InitWith({c \in Configs : c.kind # "file"}, 0..MaxLines)

NextRetract ==
    \/ Step
    \/ \E l \in RetractLines : TakeLine(l)

SpecRetract == InitRetract /\ [][NextRetract]_vars

InitSettings == InitWith({c \in Configs : c.kind # "file"}, 0..MaxLines)

NextSettings ==
    \/ Step
    \/ \E l \in SettingsLines : TakeLine(l)

SpecSettings == InitSettings /\ [][NextSettings]_vars

\* G1 X5 ;G1 Y9 E5
LineMoveCommentMove ==
    <<"G", "1", " ", "X", "5", " ", ";", "G", "1", " ", "Y", "9", " ", "E", "5">>

\* ;G1 X10 Y0 E5 F600
LineCommentMove ==
    <<";", "G", "1", " ", "X", "1", "0", " ", "Y", "0", " ", "E", "5", " ", "F", "6",
      "0", "0">>

\* G91 ;G90
LineRelativeCommentAbsolute == <<"G", "9", "1", " ", ";", "G", "9", "0">>

\* ;T1
LineCommentTool == <<";", "T", "1">>

\* G1 X5 ;filament_diameter=1.75
LineMoveDiameter ==
    <<"G", "1", " ", "X", "5", " ", ";", "f", "i", "l", "a", "m", "e", "n", "t", "_",
      "d", "i", "a", "m", "e", "t", "e", "r", "=", "1", ".", "7", "5">>

\* G1 X5 ;filament_diameter
LineMoveDiameterNoEq ==
    <<"G", "1", " ", "X", "5", " ", ";", "f", "i", "l", "a", "m", "e", "n", "t", "_",
      "d", "i", "a", "m", "e", "t", "e", "r">>

\* The lines of the comment checks: commands followed by a comment that
\* holds command words or metadata, comments alone, and the same commands
\* without a comment.
CommentLines ==
    {LineMoveCommentMove, LineCommentMove, LineRelativeCommentAbsolute,
     LineCommentTool, LineMoveDiameter, LineMoveDiameterNoEq, LineDiameter,
     LineMoveX5, LineMoveE5, LineRelative, LineTool1}

InitComment == InitWith({c \in Configs : c.kind # "file"}, 0..MaxLines)

NextComment ==
    \/ Step
    \/ \E l \in CommentLines : TakeLine(l)

SpecComment == InitComment /\ [][NextComment]_vars

\* The lines of the retract-and-prime checks: both E modes, a retraction and
\* the equal re-prime, a larger extrusion, an E reset, tool changes.
PrimeLines ==
    {LineRelativeE, LineAbsoluteE, LineRetract, LinePrime, LineMoveE5,
     LineResetE, LineTool1, LineToolMinus1}

InitPrime == InitWith({c \in Configs : c.kind # "file"}, 0..MaxLines)

NextPrime ==
    \/ Step
    \/ \E l \in PrimeLines : TakeLine(l)

SpecPrime == InitPrime /\ [][NextPrime]_vars

InitFeed == InitWith(FeedConfigs, 0..MaxLines)

NextFeed ==
    \/ Step
    \/ \E l \in FeedLines : TakeLine(l)

SpecFeed == InitFeed /\ [][NextFeed]_vars

\* The longest sequence of points recorded into a MinMax3D used on its own.
MaxPoints == 3

\* the values a component of a recorded point takes
Coordinates == {-FP(1), 0, FP(2)}

\* a MinMax3D object on its own, no scan running
InitMinMax ==
    /\ cfg = [call |-> CHOOSE c \in Configs : c.kind = "list", nLines |-> 0]
    /\ pc = "object"
    /\ exc = ""
    /\ abort = FALSE
    /\ filePos = 0
    /\ readBytes = 0
    /\ line = <<>>
    /\ memory = MemoryInit(cfg.call.profile)
    /\ minMax = MinMax3DInit
    /\ filamentDiameter = Num(0)
    /\ result = ResultInit
    /\ hist = <<>>
    /\ abortAt = None
    /\ progressLog = <<>>
    /\ callbackRaised = 0
    /\ throttleCount = 0
    /\ peakExtrusion = <<0>>
    /\ trace = <<>>
    /\ recorded = <<>>
    /\ returned = None
    /\ objects = <<>>

\* MinMax3D.record(coordinate)
Record(coordinate) ==
    /\ pc = "object"
    /\ Len(recorded) < MaxPoints
    /\ minMax' = MinMaxRecord(minMax, coordinate)
    /\ recorded' = Append(recorded, coordinate)
    /\ UNCHANGED <<cfg, pc, exc, abort, filePos, readBytes, line, memory,
                   filamentDiameter, result, hist, abortAt, progressLog,
                   callbackRaised, throttleCount, peakExtrusion, trace, returned, objects>>

NextMinMax == \E a, b, c \in Coordinates : Record(Vector3D(a, b, c))

SpecMinMax == InitMinMax /\ [][NextMinMax]_vars

\* ------------------------------------------- functions called on their own

\* No scan running: the variables of the scan as gcode.__init__ leaves them,
\* the text in hand in line, the objects in hand in objects.
NoScan(at, text, objs) ==
    /\ cfg = [call |-> CHOOSE c \in Configs : c.kind = "list", nLines |-> 0]
    /\ pc = at
    /\ exc = ""
    /\ abort = FALSE
    /\ filePos = 0
    /\ readBytes = 0
    /\ line = text
    /\ memory = MemoryInit(cfg.call.profile)
    /\ minMax = MinMax3DInit
    /\ filamentDiameter = Num(0)
    /\ result = ResultInit
    /\ hist = <<>>
    /\ abortAt = None
    /\ progressLog = <<>>
    /\ callbackRaised = 0
    /\ throttleCount = 0
    /\ peakExtrusion = <<0>>
    /\ trace = <<>>
    /\ recorded = <<>>
    /\ returned = None
    /\ objects = objs

\* The longest line handed to the tokenizer on its own.
MaxChars == 4

\* the characters of those lines: two code letters, a digit, the point, the
\* sign, the space, a tab, a newline, and the letters of nan and inf
TokenAlphabet == {"X", "Y", "1", ".", "-", " ", "\t", "\n", "n", "a", "i", "f"}

\* the code letters asked for
TokenCodes == {"X", "Y"}

\* every text of at most n characters
Texts(n) == UNION {[1..k -> TokenAlphabet] : k \in 0..n}

InitTokenizer == \E text \in Texts(MaxChars) : NoScan("call", text, <<>>)

\* getCodeInt(line, code) called on the line in hand
CallGetCodeInt(code) ==
    /\ pc = "call"
    /\ pc' = "returned"
    /\ returned' = Some([function |-> "getCodeInt", code |-> code,
                         value |-> getCodeInt(line, code)])
    /\ UNCHANGED <<cfg, exc, abort, filePos, readBytes, line, memory, minMax,
                   filamentDiameter, result, hist, abortAt, progressLog,
                   callbackRaised, throttleCount, peakExtrusion, trace, recorded, objects>>

\* getCodeFloat(line, code) called on the line in hand
CallGetCodeFloat(code) ==
    /\ pc = "call"
    /\ pc' = "returned"
    /\ returned' = Some([function |-> "getCodeFloat", code |-> code,
                         value |-> getCodeFloat(line, code)])
    /\ UNCHANGED <<cfg, exc, abort, filePos, readBytes, line, memory, minMax,
                   filamentDiameter, result, hist, abortAt, progressLog,
                   callbackRaised, throttleCount, peakExtrusion, trace, recorded, objects>>

NextTokenizer ==
    \/ \E code \in TokenCodes : CallGetCodeInt(code)
    \/ \E code \in TokenCodes : CallGetCodeFloat(code)

SpecTokenizer == InitTokenizer /\ [][NextTokenizer]_vars

\* The most Vector3D objects alive at once, the two operands included.
MaxObjects == 4

\* the operands: vectors with integer components
Vectors ==
    {Vector3D(a, b, c) : a \in {-FP(1), 0, FP(2)}, b \in {0, FP(1)}, c \in {-FP(3), 0}}

\* the scalars of a multiplication
Scalars == {FP(2), -FP(1)}

InitVector == \E a, b \in Vectors : NoScan("objects", <<>>, <<a, b>>)

\* an operator method that builds its result with Vector3D(...): the object
\* made is a new one, the operands stay as they are
NewVector(objs, v) == [objects |-> Append(objs, v), result |-> Len(objs) + 1]

\* variant: the left operand overwritten and handed back
VectorAddInPlace(objs, self, other) ==
    [objects |-> [objs EXCEPT ![self] = VAdd(objs[self], objs[other])], result |-> self]

\* Vector3D.__add__(self, other), other a Vector3D
VectorAdd(objs, self, other) == NewVector(objs, VAdd(objs[self], objs[other]))

\* Vector3D.__sub__(self, other), other a Vector3D
VectorSub(objs, self, other) == NewVector(objs, VSub(objs[self], objs[other]))

\* Vector3D.__mul__(self, other), other a number
VectorMul(objs, self, other) == NewVector(objs, VMul(objs[self], other))

\* Vector3D.__rmul__(self, other): other * self
VectorRMul(objs, self, other) == VectorMul(objs, self, other)

\* a call of an operator method: r is what it returned, the log keeps the
\* arguments, the objects as they were before the call and the result
Called(op, self, other, r) ==
    /\ pc = "objects"
    /\ Len(objects) < MaxObjects
    /\ objects' = r.objects
    /\ returned' = Append(returned, [op |-> op, self |-> self, other |-> other,
                                     before |-> objects, result |-> r.result])
    /\ UNCHANGED <<cfg, pc, exc, abort, filePos, readBytes, line, memory, minMax,
                   filamentDiameter, result, hist, abortAt, progressLog,
                   callbackRaised, throttleCount, peakExtrusion, trace, recorded>>

\* a + b
Add(a, b) == Called("add", a, b, VectorAdd(objects, a, b))

\* a - b
Sub(a, b) == Called("sub", a, b, VectorSub(objects, a, b))

\* a * k
Mul(a, k) == Called("mul", a, k, VectorMul(objects, a, k))

\* k * a
RMul(k, a) == Called("rmul", a, k, VectorRMul(objects, a, k))

NextVector ==
    \/ \E a, b \in 1..Len(objects) : Add(a, b)
    \/ \E a, b \in 1..Len(objects) : Sub(a, b)
    \/ \E a \in 1..Len(objects), k \in Scalars : Mul(a, k)
    \/ \E a \in 1..Len(objects), k \in Scalars : RMul(k, a)

SpecVector == InitVector /\ [][NextVector]_vars

\* ------------------------------------------------- octoprint.util.version

\* str.split(sep): the pieces between the separators
RECURSIVE SplitOn(_, _)
SplitOn(s, sep) ==
    IF Find(s, sep, 1) = 0 THEN <<s>>
    ELSE <<SubSeq(s, 1, Find(s, sep, 1) - 1)>>
            \o SplitOn(SubSeq(s, Find(s, sep, 1) + 1, Len(s)), sep)

Numeric(part) == part # <<>> /\ AllDigits(part)

\* how many leading pieces are numbers
LeadingNumeric(parts) ==
    LET other == {i \in 1..Len(parts) : ~Numeric(parts[i])}
    IN  IF other = {} THEN Len(parts)
        ELSE (CHOOSE i \in other : \A j \in other : i <= j) - 1

\* a version that did not parse
NoVersion == [ok |-> FALSE, release |-> <<>>, dev |-> None]

\* the pieces of a version text: n release numbers, then rest, which is
\* nothing, dev, or dev and a number
VersionOf(parts, n, rest) ==
    IF n = 0 THEN NoVersion
    ELSE IF rest = <<>>
         THEN [ok |-> TRUE, release |-> [i \in 1..n |-> DigitsVal(parts[i])], dev |-> None]
    ELSE IF rest = <<<<"d", "e", "v">>>>
         THEN [ok |-> TRUE, release |-> [i \in 1..n |-> DigitsVal(parts[i])], dev |-> Some(0)]
    ELSE IF Len(rest) = 2 /\ rest[1] = <<"d", "e", "v">> /\ Numeric(rest[2])
         THEN [ok |-> TRUE, release |-> [i \in 1..n |-> DigitsVal(parts[i])],
               dev |-> Some(DigitsVal(rest[2]))]
    ELSE NoVersion

VersionParts(parts, n) == VersionOf(parts, n, SubSeq(parts, n + 1, Len(parts)))

\* pkg_resources.parse_version(text) as the library parses a release with
\* an optional development marker: [ok, release, dev]
PkgParseVersion(text) ==
    VersionParts(SplitOn(text, "."), LeadingNumeric(SplitOn(text, ".")))

\* the base version: the release without the development marker
BaseVersion(v) == [v EXCEPT !.dev = None]

\* lines 33-34: the text cut at the first '-'
CutAtDash(version_string) ==
    IF Find(version_string, "-", 1) = 0 THEN version_string
    ELSE SubSeq(version_string, 1, Find(version_string, "-", 1) - 1)

\* parse_version(version_string, base): [exc, version]
parse_version(version_string, base) ==
    LET v == PkgParseVersion(CutAtDash(version_string))
    IN  IF ~v.ok THEN [exc |-> "ValueError", version |-> v]
        ELSE [exc |-> "", version |-> IF base THEN BaseVersion(v) ELSE v]

\* release number i, zero beyond the end (1.2 is 1.2.0)
ReleasePart(r, i) == IF i <= Len(r) THEN r[i] ELSE 0

\* -1, 0, 1: the order of two releases
CmpRelease(a, b) ==
    LET diff == {i \in 1..Max2(Len(a), Len(b)) : ReleasePart(a, i) # ReleasePart(b, i)}
        i    == CHOOSE k \in diff : \A j \in diff : k <= j
    IN  IF diff = {} THEN 0 ELSE IF ReleasePart(a, i) < ReleasePart(b, i) THEN -1 ELSE 1

\* the order of two versions: a development version sorts before its release
CmpVersion(a, b) ==
    IF CmpRelease(a.release, b.release) # 0 THEN CmpRelease(a.release, b.release)
    ELSE IF a.dev = None /\ b.dev = None THEN 0
    ELSE IF a.dev = None THEN 1
    ELSE IF b.dev = None THEN -1
    ELSE IF Val(a.dev) < Val(b.dev) THEN -1
    ELSE IF Val(a.dev) > Val(b.dev) THEN 1
    ELSE 0

\* the characters a comparison begins with
ComparisonChars == {"<", ">", "=", "!"}

\* one comparison of a requirement: [ok, op, version]
ParseClause(text) ==
    LET two == IF Len(text) >= 2 THEN SubSeq(text, 1, 2) ELSE <<>>
        one == IF Len(text) >= 1 THEN SubSeq(text, 1, 1) ELSE <<>>
    IN  IF two \in {<<">", "=">>, <<"<", "=">>, <<"=", "=">>, <<"!", "=">>}
        THEN [ok |-> PkgParseVersion(SubSeq(text, 3, Len(text))).ok, op |-> two,
              version |-> PkgParseVersion(SubSeq(text, 3, Len(text)))]
        ELSE IF one \in {<<">">>, <<"<">>}
        THEN [ok |-> PkgParseVersion(SubSeq(text, 2, Len(text))).ok, op |-> one,
              version |-> PkgParseVersion(SubSeq(text, 2, Len(text)))]
        ELSE [ok |-> FALSE, op |-> <<>>, version |-> NoVersion]

\* the comparisons after the project name
ParseClauses(text) ==
    IF text = <<>> THEN <<>>
    ELSE [k \in 1..Len(SplitOn(text, ",")) |-> ParseClause(SplitOn(text, ",")[k])]

\* a requirement whose project name ends before position n (0: no comparison)
RequirementAt(spec, n) ==
    LET name    == IF n = 0 THEN spec ELSE SubSeq(spec, 1, n - 1)
        clauses == IF n = 0 THEN <<>> ELSE ParseClauses(SubSeq(spec, n, Len(spec)))
    IN  [ok      |-> name # <<>> /\ \A k \in 1..Len(clauses) : clauses[k].ok,
         clauses |-> clauses]

\* next(pkg_resources.parse_requirements(spec)): a project name followed by
\* comparisons, [ok, clauses]; not ok stands for the exception
ParseRequirement(spec) ==
    LET at == {i \in 1..Len(spec) : spec[i] \in ComparisonChars}
    IN  IF at = {} THEN RequirementAt(spec, 0)
        ELSE RequirementAt(spec, CHOOSE i \in at : \A j \in at : i <= j)

\* one comparison of the library: < leaves out the development versions of
\* the version it names
Satisfies(v, clause) ==
    LET c == CmpVersion(v, clause.version)
    IN  CASE clause.op = <<">", "=">> -> c >= 0
          [] clause.op = <<"<", "=">> -> c <= 0
          [] clause.op = <<"=", "=">> -> c = 0
          [] clause.op = <<"!", "=">> -> c # 0
          [] clause.op = <<">">>      -> c > 0
          [] clause.op = <<"<">>      ->
                /\ c < 0
                /\ ~(/\ v.dev # None
                     /\ clause.version.dev = None
                     /\ CmpRelease(v.release, clause.version.release) = 0)

\* version in parsed_spec (line 94)
Contains(requirement, v) ==
    \A k \in 1..Len(requirement.clauses) : Satisfies(v, requirement.clauses[k])

\* lines 86-87: the spec with the package name in front when it lacks it
Prefixed(spec, package) ==
    IF package # None /\ ~StartsWith(LowerSeq(spec), LowerSeq(Val(package)))
    THEN LowerSeq(Val(package)) \o spec
    ELSE spec

\* variant: every spec parsed before the first one is compared
MatchesAnyValidatedFirst(v, specs, package, k) ==
    IF \E i \in 1..Len(specs) : ~ParseRequirement(Prefixed(specs[i], package)).ok
    THEN [exc |-> "ValueError", value |-> FALSE]
    ELSE [exc |-> "",
          value |-> \E i \in 1..Len(specs) :
                        Contains(ParseRequirement(Prefixed(specs[i], package)), v)]

\* lines 85-97: the loop over the specs from spec k on, [exc, value]
RECURSIVE MatchesAny(_, _, _, _)
MatchesAny(v, specs, package, k) ==
    IF k > Len(specs) THEN [exc |-> "", value |-> FALSE]
    ELSE IF ~ParseRequirement(Prefixed(specs[k], package)).ok
         THEN [exc |-> "ValueError", value |-> FALSE]
    ELSE IF Contains(ParseRequirement(Prefixed(specs[k], package)), v)
         THEN [exc |-> "", value |-> TRUE]
    ELSE MatchesAny(v, specs, package, k + 1)

\* version_matches_any_spec(version, specs, package, base), version a string
version_matches_any_spec(version, specs, package, base) ==
    IF parse_version(version, base).exc # ""
    THEN [exc |-> parse_version(version, base).exc, value |-> FALSE]
    ELSE MatchesAny(parse_version(version, base).version, specs, package, 1)

\* 1.2.0
Version120 == <<"1", ".", "2", ".", "0">>


\* 1.3.0
Version130 == <<"1", ".", "3", ".", "0">>


\* 1.1.0
Version110 == <<"1", ".", "1", ".", "0">>


\* 1.2.0-dev-405
Version120DashDev == <<"1", ".", "2", ".", "0", "-", "d", "e", "v", "-", "4", "0", "5">>


\* 1.2.0.dev.405
Version120DotDev == <<"1", ".", "2", ".", "0", ".", "d", "e", "v", ".", "4", "0", "5">>


\* 1.3.0.dev.123
Version130DotDev == <<"1", ".", "3", ".", "0", ".", "d", "e", "v", ".", "1", "2", "3">>


\* foo>=1.2.0,<1.3.0
ReqFooRange ==
    <<"f", "o", "o", ">", "=", "1", ".", "2", ".", "0", ",", "<", "1", ".", "3", ".",
      "0">>


\* foo>=1.3.0
ReqFooFrom130 == <<"f", "o", "o", ">", "=", "1", ".", "3", ".", "0">>


\* foo>=1.2.0
ReqFooFrom120 == <<"f", "o", "o", ">", "=", "1", ".", "2", ".", "0">>


\* >=1.2.0,<1.3.0
ReqRange12 == <<">", "=", "1", ".", "2", ".", "0", ",", "<", "1", ".", "3", ".", "0">>


\* FoO>=1.2.0,<1.3.0
ReqMixedCaseRange ==
    <<"F", "o", "O", ">", "=", "1", ".", "2", ".", "0", ",", "<", "1", ".", "3", ".",
      "0">>


\* >=1.1.0,<1.2.0
ReqRange11 == <<">", "=", "1", ".", "1", ".", "0", ",", "<", "1", ".", "2", ".", "0">>


\* ==1.3.0
ReqExactly130 == <<"=", "=", "1", ".", "3", ".", "0">>


\* foo=>1.2.0
ReqMalformed == <<"f", "o", "o", "=", ">", "1", ".", "2", ".", "0">>

\* the version strings of the calls: releases, development versions written
\* with dots and with dashes
VersionTexts ==
    {Version120, Version130, Version110, Version120DashDev, Version120DotDev,
     Version130DotDev}

\* the specs of the calls: with and without the package name, one whose
\* comparison is malformed
Requirements ==
    {ReqFooRange, ReqFooFrom130, ReqFooFrom120, ReqRange12, ReqMixedCaseRange,
     ReqRange11, ReqExactly130, ReqMalformed}

\* the package argument: None, foo, Foo
Packages == {None, Some(<<"f", "o", "o">>), Some(<<"F", "o", "o">>)}

\* The longest list of specs handed to version_matches_any_spec.
MaxSpecs == 2

\* every list of at most n specs
SpecLists(n) == UNION {[1..k -> Requirements] : k \in 0..n}

InitVersion == NoScan("call", <<>>, <<>>)

\* version_matches_any_spec(version, specs, package=package, base=base)
CallVersionMatchesAnySpec(version, specs, package, base) ==
    /\ pc = "call"
    /\ pc' = "returned"
    /\ returned' =
         <<[function |-> "version_matches_any_spec",
            version  |-> version, specs |-> specs, package |-> package, base |-> base,
            exc      |-> version_matches_any_spec(version, specs, package, base).exc,
            value    |-> version_matches_any_spec(version, specs, package, base).value]>>
    /\ UNCHANGED <<cfg, exc, abort, filePos, readBytes, line, memory, minMax,
                   filamentDiameter, result, hist, abortAt, progressLog,
                   callbackRaised, throttleCount, peakExtrusion, trace, recorded, objects>>

NextVersion ==
    \E version \in VersionTexts, specs \in SpecLists(MaxSpecs), package \in Packages,
       base \in BOOLEAN :
        CallVersionMatchesAnySpec(version, specs, package, base)

SpecVersion == InitVersion /\ [][NextVersion]_vars

\* ------------------------------------------------------------------ claims

\* filePos when abort() was called
AbortedAtLine == Val(abortAt).filePos

\* abort() was called while a line of the input was still to be taken
AbortedWithLinesLeft == abort /\ AbortedAtLine < cfg.nLines

\* C1: whatever the lines are, no line makes the scan raise: a command whose
\* numeric parameter is missing or unparsable is handled as if the parameter
\* were absent and the scan goes on (the progress callback's own exception is
\* left aside here).
C1_NoLineRaises == ~(pc = "raised" /\ exc # "CallbackError")

\* C1, the failing case: M220 without S ended the scan with a TypeError.
C1_Witness ==
    /\ pc = "raised"
    /\ exc = "TypeError"
    /\ hist = <<LineFeedOverrideNoS>>

\* C2: when the flag is set before a line that is not the last one has been
\* processed, the scan ends by raising AnalysisAborted and populates nothing.
C2_AbortRaisesByNextLine ==
    AbortedWithLinesLeft /\ Terminal
      => pc = "aborted" /\ exc = "AnalysisAborted" /\ result = ResultInit

\* C2, the failing case: the flag was set while a line was in progress, a
\* further line was left, and the scan ended with that line's own exception.
C2_Witness ==
    /\ pc = "raised"
    /\ exc = "TypeError"
    /\ AbortedWithLinesLeft
    /\ Val(abortAt).pc = "line"

\* What does hold of C2: after the flag no further line is taken; with a line
\* left the result is never populated; with no line in progress when the flag
\* was set the scan can end with AnalysisAborted only; an iteration that had
\* started runs to its end (its throttle call included) before the flag is
\* read.
AbortStopsScan ==
    /\ abort => filePos = AbortedAtLine
    /\ AbortedWithLinesLeft => pc \notin {"final", "finish", "done"} /\ result = ResultInit
    /\ AbortedWithLinesLeft /\ Val(abortAt).pc # "line" /\ Terminal
         => pc = "aborted" /\ exc = "AnalysisAborted"
    /\ pc = "aborted" /\ cfg.call.throttle => throttleCount = filePos

C4_NothingBeforeCompletion ==
    pc # "done" => /\ result = ResultInit
                   /\ minMax = MinMax3DInit
                   /\ filamentDiameter = Num(0)

\* C4 amended: extrusionAmount, extrusionVolume and totalMoveTimeMinute keep
\* their initial values until the scan completes and are written once, by
\* the step that completes it; the bounding box and the filament diameter are
\* written while lines are processed.
C4_ResultAtCompletion ==
    /\ [](pc # "done" => result = ResultInit)
    /\ [][result' # result => pc = "finish" /\ pc' = "done"]_vars

\* C4 witness: an aborted scan that left a bounding box and a filament
\* diameter behind, the three aggregate fields untouched.
C4_Witness ==
    /\ pc = "aborted"
    /\ minMax # MinMax3DInit
    /\ filamentDiameter # Num(0)
    /\ result = ResultInit

\* C5: an exception of the progress callback never ends the scan.
C5_CallbackNeverEndsScan == exc # "CallbackError"

\* C5, the failing case: every line was processed, the terminal callback
\* raised, and the scan ended with the result unpopulated.
C5_Witness ==
    /\ pc = "raised"
    /\ exc = "CallbackError"
    /\ filePos = cfg.nLines
    /\ result = ResultInit

\* The comments that start with a metadata form whose content does not decode.
MalformedMetadataLines ==
    {LineDiameterNoEq, LineDiameterBad, LineCuraBadBase64, LineCuraBadRecord}

\* C6: processing a line whose comment is malformed metadata raises nothing
\* and leaves the detected filament diameter as it was.
C6_MalformedMetadataIgnored ==
    [][pc = "line" /\ line \in MalformedMetadataLines
         => pc' # "raised" /\ filamentDiameter' = filamentDiameter]_vars

\* C6, the failing case: after a diameter of 1.75 was detected, a declaration
\* with a non-numeric value set the diameter to zero.
C6_Witness ==
    /\ pc = "throttle"
    /\ hist = <<LineDiameter, LineDiameterBad>>
    /\ filamentDiameter = Num(0)

\* ------------------------------------------------------------ extrusion

\* the linear moves of the vocabulary that carry an E word, and their E word
AbsoluteEMoves == {LineMoveE5, LineMoveE4, LineMoveE6, LineRetract}

TargetE(l) ==
    CASE l = LineMoveE5  -> FP(5)
      [] l = LineMoveE4  -> FP(4)
      [] l = LineMoveE6  -> FP(6)
      [] l = LineRetract -> 0 - FP(1)

\* the processed lines are E moves in absolute mode (G90 changes nothing)
OnlyAbsoluteEMoves ==
    /\ pc \notin {"line", "raised"}
    /\ \A i \in 1..Len(hist) : hist[i] \in AbsoluteEMoves \cup {LineAbsolute}

RECURSIVE PositiveSteps(_, _)
\* the sum of the positive differences between consecutive E targets of h,
\* the first one taken against `last`
PositiveSteps(h, last) ==
    IF h = <<>> THEN 0
    ELSE IF Head(h) \notin AbsoluteEMoves THEN PositiveSteps(Tail(h), last)
    ELSE Max2(TargetE(Head(h)) - last, 0) + PositiveSteps(Tail(h), TargetE(Head(h)))

RECURSIVE HighestTarget(_, _)
\* the highest E target of h, starting from `top`
HighestTarget(h, top) ==
    IF h = <<>> THEN top
    ELSE IF Head(h) \notin AbsoluteEMoves THEN HighestTarget(Tail(h), top)
    ELSE HighestTarget(Tail(h), Max2(top, TargetE(Head(h))))

\* C7 as stated: in absolute E mode the cumulative extrusion is the sum of the
\* positive differences between consecutive E targets.
C7_PositiveDifferences ==
    OnlyAbsoluteEMoves => memory.totalExtrusion[1] = PositiveSteps(hist, 0)

\* C7: in absolute E mode repeating an E target adds nothing (G90, G1 E5,
\* G1 E5 reports 5), and the cumulative extrusion is the highest E target seen
\* so far: a move adds the positive difference between its target and the
\* tracked E, which a retraction does not lower.
C7_AbsoluteEHighWater ==
    /\ OnlyAbsoluteEMoves
         => /\ memory.totalExtrusion[1] = HighestTarget(hist, 0)
            /\ memory.maxExtrusion[1] = HighestTarget(hist, 0)
            /\ memory.currentE[1] = HighestTarget(hist, 0)
    /\ pc = "done" /\ hist = <<LineAbsolute, LineMoveE5, LineMoveE5>>
         => result.extrusionAmount = <<FP(5)>>

C7_Witness ==
    /\ pc = "done"
    /\ hist = <<LineMoveE5, LineMoveE4, LineMoveE5>>
    /\ result.extrusionAmount = <<FP(5)>>

\* C8: the three per-tool arrays (current E, maximum, total) always have the
\* same length, and no step shortens them.
C8_ArraysSameLength ==
    /\ [](/\ Len(memory.currentE) = Len(memory.maxExtrusion)
          /\ Len(memory.currentE) = Len(memory.totalExtrusion))
    /\ [][/\ Len(memory'.currentE) >= Len(memory.currentE)
          /\ Len(memory'.maxExtrusion) >= Len(memory.maxExtrusion)
          /\ Len(memory'.totalExtrusion) >= Len(memory.totalExtrusion)]_vars

C8_Witness ==
    /\ pc = "throttle"
    /\ hist = <<LineMoveE5, LineTool1>>
    /\ Len(memory.currentE) = 2
    /\ Len(memory.maxExtrusion) = 2
    /\ Len(memory.totalExtrusion) = 2

\* C9: no tool's maximum extrusion ever decreases from one step to the next.
C9_MaxNeverDecreases ==
    [][\A i \in 1..Len(memory.maxExtrusion) :
          /\ i <= Len(memory'.maxExtrusion)
          /\ memory'.maxExtrusion[i] >= memory.maxExtrusion[i]]_vars

C9_Witness ==
    /\ pc = "throttle"
    /\ hist = <<LineMoveE5, LineResetE>>
    /\ memory.currentE[1] = 0
    /\ memory.maxExtrusion[1] = FP(5)

\* C10: at completion the reported length of every tool is the largest
\* cumulative extrusion the tool reached during the scan (so a trailing
\* retraction cannot lower it), the volumes have one entry per reported
\* length, and every volume is zero when the filament diameter is zero.
C10_ReportedIsRunningMaximum ==
    pc = "done"
      => /\ result.extrusionAmount = peakExtrusion
         /\ Len(result.extrusionVolume) = Len(result.extrusionAmount)
         /\ filamentDiameter = Num(0)
              => \A i \in 1..Len(result.extrusionVolume) :
                    result.extrusionVolume[i] = Num(0)

C10_Witness ==
    /\ pc = "done"
    /\ hist = <<LineMoveE5, LineRetract>>
    /\ filamentDiameter = Num(0)
    /\ result.extrusionAmount = <<FP(5)>>
    /\ result.extrusionVolume = <<Num(0)>>

\* --------------------------------------------------------------- motion

\* the lines of the vocabulary that move without extruding or retract
TravelLines == {LineTravel, LineTravelZ, LineRetract, LineMoveY1, LineMoveX5}

\* C11: the bounding box changes only in the processing of a G0/G1 line that
\* adds a strictly positive delta to the active tool's cumulative extrusion;
\* so after a program of travel moves and retractions only the bounding box
\* is unset on every component and, at completion, every reported length and
\* volume is zero.
C11_BoxOnlyOnExtrusion ==
    /\ [][minMax' # minMax
            => /\ pc = "line"
               /\ getCodeInt(line, "G") \in {Some(0), Some(1)}
               /\ PyGet(memory'.totalExtrusion, memory.currentExtruder)
                    > PyGet(memory.totalExtrusion, memory.currentExtruder)]_vars
    /\ []((\A i \in 1..Len(hist) : hist[i] \in TravelLines)
            => /\ minMax = MinMax3DInit
               /\ pc = "done"
                    => /\ \A t \in 1..Len(result.extrusionAmount) :
                             result.extrusionAmount[t] = 0
                       /\ \A t \in 1..Len(result.extrusionVolume) :
                             result.extrusionVolume[t] = Num(0))

C11_Witness ==
    /\ pc = "done"
    /\ hist = <<LineTravel, LineRetract, LineTravelZ>>
    /\ memory.pos = Vector3D(FP(3), FP(5), FP(2))
    /\ minMax = MinMax3DInit
    /\ result.extrusionAmount = <<0>>

\* ------------------------------------------------------------ tools

\* class memory before line i + 1 (after line i) of a short input
MemAt(i) == IF i = 0 THEN MemoryInit(cfg.call.profile) ELSE trace[i]

\* the lines i + 1 .. j of the input hold no G92
NoSetPositionBetween(i, j) ==
    \A k \in (i + 1)..j : getCodeInt(hist[k], "G") # Some(92)

\* the lines processed without an exception (a line that raised is the last
\* entry of the trace)
Completed ==
    IF pc = "raised" /\ exc # "CallbackError" /\ Len(trace) = filePos
    THEN Len(trace) - 1
    ELSE Len(trace)

\* C12: whenever the tool that was active before some line is active again
\* after a later line, with no G92 in between, the accumulated position
\* offset is what it was; in particular after selecting b and then a again.
C12_ToolSwitchRoundTrip ==
    \A i \in 0..Completed : \A j \in i..Completed :
        /\ MemAt(i).currentExtruder = MemAt(j).currentExtruder
        /\ NoSetPositionBetween(i, j)
        => MemAt(j).posOffset = MemAt(i).posOffset

\* C12 witness: after a G92 moved the offset, T1 changed it and T0 restored it.
C12_Witness ==
    /\ pc = "throttle"
    /\ hist = <<LineSetXE, LineTool1, LineTool0>>
    /\ cfg.call.profile = ProfileOffsetBoth
    /\ trace[2].posOffset # trace[1].posOffset
    /\ trace[3].posOffset = trace[1].posOffset
    /\ trace[1].posOffset # Vector3D(0, 0, 0)

\* a line without comment whose only family is T, the tool beyond the
\* configured maximum
SelectsBeyondMaximum(l) ==
    /\ Find(l, ";", 1) = 0
    /\ getCodeInt(l, "G") = None
    /\ getCodeInt(l, "M") = None
    /\ getCodeInt(l, "T") # None
    /\ Val(getCodeInt(l, "T")) > maxExtruders

\* C13: processing a tool-select line whose index exceeds the configured
\* maximum leaves the active tool, the accumulated offset and the three
\* per-tool arrays (all of class memory, and the bounding box) unchanged,
\* raises nothing, and the scan goes on.
C13_ToolBeyondMaximumIgnored ==
    [][pc = "line" /\ pc' # "line" /\ SelectsBeyondMaximum(line)
         => /\ memory' = memory
            /\ minMax' = minMax
            /\ pc' = "throttle"
            /\ exc' = ""]_vars

\* C13 witness: T2 was processed with tool 1 active and changed nothing.
C13_Witness ==
    /\ pc = "throttle"
    /\ hist = <<LineMoveE5, LineTool1, LineTool2>>
    /\ memory.currentExtruder = 1
    /\ trace[3] = trace[2]
    /\ Len(memory.currentE) = 2

\* what only the M handler writes
MiscState(mem) ==
    <<mem.absoluteE, mem.fwretractTime, mem.fwretractDist, mem.fwrecoverTime,
      mem.feedrate_multiplicator, mem.flowrate_ultiplicator>>

\* what the T handler writes apart from the offset
ToolState(mem) ==
    <<mem.currentExtruder, Len(mem.currentE), Len(mem.maxExtrusion), Len(mem.totalExtrusion)>>

\* what only the G handler writes
MotionState(mem) ==
    <<mem.pos, mem.posAbs, mem.scale, mem.feedrate, mem.totalMoveTimeMinute,
      mem.totalExtrusion, mem.maxExtrusion>>

\* C14: at most one family is interpreted per line, G before M before T.  On
\* a line where a G number is found nothing the M or the T handler writes
\* changes (the offset only by G92); on a line with no G number but an M
\* number nothing the G or the T handler writes changes; so a line with G or
\* M together with T never changes the active tool.
C14_OneFamilyPerLine ==
    [][pc = "line" /\ pc' # "line" /\ Find(line, ";", 1) = 0
         => /\ getCodeInt(line, "G") # None
                 => /\ MiscState(memory') = MiscState(memory)
                    /\ ToolState(memory') = ToolState(memory)
                    /\ getCodeInt(line, "G") # Some(92)
                         => memory'.posOffset = memory.posOffset
            /\ getCodeInt(line, "G") = None /\ getCodeInt(line, "M") # None
                 => /\ MotionState(memory') = MotionState(memory)
                    /\ ToolState(memory') = ToolState(memory)
                    /\ memory'.posOffset = memory.posOffset
                    /\ memory'.currentE = memory.currentE]_vars

\* C14 witness: G90 M83 left the E mode absolute, G1 X1 T1 moved and kept
\* tool 0, M83 T1 made E relative and kept tool 0.
C14_Witness ==
    /\ pc = "throttle"
    /\ hist = <<LineAbsoluteWithM, LineMoveWithTool, LineRelativeEWithTool>>
    /\ trace[1].absoluteE
    /\ trace[2].pos.x = FP(1)
    /\ ~trace[3].absoluteE
    /\ memory.currentExtruder = 0
    /\ Len(memory.currentE) = 1

\* --------------------------------------------------------- G92, G91, G28

\* the word of an axis on a line
AxisWord(c) == CASE c = "x" -> "X" [] c = "y" -> "Y" [] c = "z" -> "Z"

\* a line without comment of the motion family G
IsMotion(l, G) == Find(l, ";", 1) = 0 /\ getCodeInt(l, "G") = Some(G)

\* C15: a G92 line, with or without E, rebases the offset on each axis given
\* so that the current position maps to the given coordinate under the scale
\* in effect (an absolute move to that coordinate would stay in place),
\* leaves the offset of the other axes and the position unchanged, and when
\* E is given overwrites the active tool's current E.
C15_SetPositionRebases ==
    [][pc = "line" /\ pc' # "line" /\ IsMotion(line, 92)
         => /\ pc' = "throttle"
            /\ memory'.pos = memory.pos
            /\ \A c \in Axes :
                 memory'.posOffset[c] =
                    IF getCodeFloat(line, AxisWord(c)) # None
                    THEN memory.pos[c]
                           - FMul(memory.scale, Val(getCodeFloat(line, AxisWord(c))))
                    ELSE memory.posOffset[c]
            /\ getCodeFloat(line, "E") # None
                 => PyGet(memory'.currentE, memory.currentExtruder)
                      = Val(getCodeFloat(line, "E"))]_vars

\* C15, the failing case: at x = 10, G92 X5 left the offset at zero, and the
\* absolute move to X5 that followed moved the position to x = 5.
C15_Witness ==
    /\ pc = "throttle"
    /\ hist = <<LineTravel, LineSetX, LineMoveX5>>
    /\ trace[2].posOffset.x = 0
    /\ trace[2].pos.x = FP(10)
    /\ memory.pos.x = FP(5)

\* What does hold of G92: with E given, the offset of each axis given becomes
\* the position minus the coordinate as written (not scaled); without E the
\* line changes nothing.
SetPositionAsCoded ==
    [][pc = "line" /\ pc' # "line" /\ IsMotion(line, 92)
         => /\ pc' = "throttle"
            /\ memory'.pos = memory.pos
            /\ getCodeFloat(line, "E") = None => memory' = memory
            /\ getCodeFloat(line, "E") # None
                 => /\ PyGet(memory'.currentE, memory.currentExtruder)
                         = Val(getCodeFloat(line, "E"))
                    /\ \A c \in Axes :
                         memory'.posOffset[c] =
                            IF getCodeFloat(line, AxisWord(c)) # None
                            THEN memory.pos[c] - Val(getCodeFloat(line, AxisWord(c)))
                            ELSE memory.posOffset[c]]_vars

\* C16: in relative mode a linear move changes the position only on the axes
\* given on the line, by the given value times the scale; an axis not given
\* keeps its value.
C16_RelativeMoveGivenAxesOnly ==
    [][(/\ pc = "line" /\ pc' # "line"
        /\ IsMotion(line, 0) \/ IsMotion(line, 1)
        /\ ~memory.posAbs)
         => \A c \in Axes :
               memory'.pos[c] =
                  IF getCodeFloat(line, AxisWord(c)) # None
                  THEN memory.pos[c]
                         + FMul(memory.scale, Val(getCodeFloat(line, AxisWord(c))))
                  ELSE memory.pos[c]]_vars

\* C16, the failing case: at (10, 5, 0) in relative mode, G1 Y1 moved x to 20.
C16_Witness ==
    /\ pc = "throttle"
    /\ hist = <<LineTravel, LineRelative, LineMoveY1>>
    /\ trace[2].pos = Vector3D(FP(10), FP(5), 0)
    /\ memory.pos = Vector3D(FP(20), FP(6), 0)

\* the letter of axis c appears on the line, with or without a number
AxisLetterGiven(l, c) == Find(l, AxisWord(c), 1) # 0

\* C17: a G28 line with no axis letter puts the position at the origin; one
\* with some axis letters, with or without numbers, puts exactly those axes
\* at the origin and leaves the others.
C17_HomeGivenAxes ==
    [][pc = "line" /\ pc' # "line" /\ IsMotion(line, 28)
         => /\ pc' = "throttle"
            /\ \A c \in Axes :
                 memory'.pos[c] =
                    IF AxisLetterGiven(line, c) \/ \A d \in Axes : ~AxisLetterGiven(line, d)
                    THEN 0
                    ELSE memory.pos[c]]_vars

\* C17, the failing case: at (10, 5, 0), G28 X put y at the origin too.
C17_Witness ==
    /\ pc = "throttle"
    /\ hist = <<LineTravel, LineHomeX>>
    /\ trace[1].pos = Vector3D(FP(10), FP(5), 0)
    /\ memory.pos = Vector3D(0, 0, 0)

\* What does hold of G28: an axis counts as given when a number follows its
\* letter.
HomeAsCoded ==
    [][pc = "line" /\ pc' # "line" /\ IsMotion(line, 28)
         => /\ pc' = "throttle"
            /\ \A c \in Axes :
                 memory'.pos[c] =
                    IF \/ getCodeFloat(line, AxisWord(c)) # None
                       \/ \A d \in Axes : getCodeFloat(line, AxisWord(d)) = None
                    THEN 0
                    ELSE memory.pos[c]]_vars

\* ------------------------------------------------------------ overrides

\* the processed lines of the miscellaneous family M
OverrideLines(M) ==
    {k \in 1..Completed :
        /\ Find(hist[k], ";", 1) = 0
        /\ getCodeInt(hist[k], "G") = None
        /\ getCodeInt(hist[k], "M") = Some(M)}

\* the S value over 100 of the last processed M line, 1.0 when there is none
LastOverride(M) ==
    IF OverrideLines(M) = {} THEN FP(1)
    ELSE LET last == CHOOSE k \in OverrideLines(M) : \A j \in OverrideLines(M) : j <= k
         IN  FDiv(FP(Val(getCodeInt(hist[last], "S"))), FP(100))

\* C18: the flow multiplier is the S value over 100 of the last M221 line and
\* the feed multiplier that of the last M220 line, 1.0 before any; a linear
\* move uses its F word times the feed multiplier and, in absolute E mode
\* from a current E of zero, extrudes its E word times the flow multiplier.
C18_OverridesApplied ==
    /\ [](cfg.nLines <= MaxLines
            => /\ memory.flowrate_multiplicator = LastOverride(221)
               /\ memory.feedrate_multiplicator = LastOverride(220))
    /\ [][(/\ cfg.nLines <= MaxLines
           /\ pc = "line" /\ pc' = "throttle"
           /\ line = LineMoveE5
           /\ memory.absoluteE
           /\ memory.currentE = <<0>>)
            => /\ memory'.feedrate = FMul(LastOverride(220), FP(600))
               /\ memory'.currentE = <<FMul(LastOverride(221), FP(5))>>]_vars

\* C18, the failing case: after M221 S50 the flow multiplier is still 1.0,
\* the value went to another attribute, and G1 ... E5 extruded 5, not 2.5.
C18_Witness ==
    /\ pc = "throttle"
    /\ hist = <<LineFlowOverride, LineMoveE5>>
    /\ memory.flowrate_multiplicator = FP(1)
    /\ memory.flowrate_ultiplicator = Some(FP(1) \div 2)
    /\ memory.totalExtrusion = <<FP(5)>>

\* What does hold of the overrides: the feed multiplier is the S value over
\* 100 of the last M220 line and scales the F word of a later move; the flow
\* multiplier is 1.0 throughout.
FeedOverrideApplied ==
    /\ [](cfg.nLines <= MaxLines
            => /\ memory.feedrate_multiplicator = LastOverride(220)
               /\ memory.flowrate_multiplicator = FP(1))
    /\ [][(/\ cfg.nLines <= MaxLines
           /\ pc = "line" /\ pc' = "throttle"
           /\ line = LineMoveE5)
            => memory'.feedrate = FMul(LastOverride(220), FP(600))]_vars

\* ----------------------------------------------------------------- arcs

\* a G2/G3 line whose target is the current position, the centre elsewhere
IsFullCircle(l, mem) ==
    /\ IsMotion(l, 2) \/ IsMotion(l, 3)
    /\ getCodeFloat(l, "X") = Some(mem.pos.x)
    /\ getCodeFloat(l, "Y") = Some(mem.pos.y)
    /\ getCodeFloat(l, "I") # None
    /\ getCodeFloat(l, "J") # None
    /\ getCodeFloat(l, "I") # Some(0) \/ getCodeFloat(l, "J") # Some(0)

\* C19: a full circle is not a no-op: it is replayed as at least one linear
\* move, which takes time, and ends at the target, and the scan goes on.
C19_FullCircleReplayed ==
    [][pc = "line" /\ pc' # "line" /\ IsFullCircle(line, memory)
         => /\ pc' = "throttle"
            /\ memory'.pos = memory.pos
            /\ memory'.totalMoveTimeMinute > memory.totalMoveTimeMinute]_vars

\* C19, the failing case: the full circle at the origin ended the scan with
\* an AttributeError, class memory untouched.
C19_Witness ==
    /\ pc = "raised"
    /\ exc = "AttributeError"
    /\ hist = <<LineTravel, LineHome, LineFullCircle>>
    /\ trace[3] = trace[2]

\* ------------------------------------------------------------- MinMax3D

\* the values recorded for component c
RecordedValues(c) == {recorded[i][c] : i \in 1..Len(recorded)}

\* C20: after a non-empty sequence of record calls, per component min is the
\* smallest and max the largest value recorded, so min <= max, and size is
\* their absolute difference: zero after one point, the absolute difference
\* of the two values after two points.
C20_MinMaxTracksExtremes ==
    recorded # <<>>
      => \A c \in Axes :
            /\ minMax.min[c] # None /\ minMax.max[c] # None
            /\ Val(minMax.min[c]) \in RecordedValues(c)
            /\ Val(minMax.max[c]) \in RecordedValues(c)
            /\ \A v \in RecordedValues(c) :
                  Val(minMax.min[c]) <= v /\ v <= Val(minMax.max[c])
            /\ Val(minMax.min[c]) <= Val(minMax.max[c])
            /\ MinMaxSize(minMax).exc = ""
            /\ MinMaxSize(minMax).size[c] = Abs(Val(minMax.max[c]) - Val(minMax.min[c]))
            /\ Len(recorded) = 1 => MinMaxSize(minMax).size[c] = 0
            /\ Len(recorded) = 2
                 => MinMaxSize(minMax).size[c] = Abs(recorded[1][c] - recorded[2][c])

\* C20 witness: two points whose components cross; the size is (3, 0, 3).
C20_Witness ==
    /\ recorded = <<Vector3D(FP(2), 0, -FP(1)), Vector3D(-FP(1), 0, FP(2))>>
    /\ minMax.min = Vector3D(Some(-FP(1)), Some(0), Some(-FP(1)))
    /\ minMax.max = Vector3D(Some(FP(2)), Some(0), Some(FP(2)))
    /\ MinMaxSize(minMax).size = Vector3D(FP(3), 0, FP(3))

\* ------------------------------------------------------------ tokenizer

\* the text from just after the first occurrence of the code letter up to the
\* next whitespace character or the end of the line
WordAfter(l, code) ==
    LET n     == Find(l, code, 1)
        stops == {k \in (n + 1)..Len(l) : l[k] \in Whitespace}
    IN  IF stops = {} THEN SubSeq(l, n + 1, Len(l))
        ELSE SubSeq(l, n + 1, (CHOOSE k \in stops : \A j \in stops : k <= j) - 1)

\* the number that text stands for: absent when the letter is missing, when
\* the text does not parse, or when a float is NaN or infinite
WordValue(l, function, code) ==
    IF Find(l, code, 1) = 0 THEN None
    ELSE IF function = "getCodeInt" THEN ParseInt(WordAfter(l, code))
    ELSE IF ParseFloat(WordAfter(l, code)).kind = "num"
         THEN Some(ParseFloat(WordAfter(l, code)).v)
    ELSE None

\* C21: for every line and letter, getCodeInt and getCodeFloat return the
\* number parsed from the text between the first occurrence of the letter and
\* the next whitespace (or the end of the line), or absent when the letter is
\* missing, the text does not parse or the float is NaN or infinite.
C21_TokenizerParsesWord ==
    pc = "returned"
      => Val(returned).value = WordValue(line, Val(returned).function, Val(returned).code)

\* C21, the failing case: on "X1<tab>1" the word after X is 1, and
\* getCodeFloat returned absent, since it read on to the end of the line.
C21_Witness ==
    /\ pc = "returned"
    /\ line = <<"X", "1", "\t", "1">>
    /\ Val(returned).function = "getCodeFloat"
    /\ Val(returned).code = "X"
    /\ Val(returned).value = None
    /\ WordAfter(line, "X") = <<"1">>

\* What does hold of the tokenizer: when the word after the letter ends at a
\* space or at the end of the line, or only whitespace follows it, the result
\* is the number the word stands for.
TokenizerSpaceDelimited ==
    (/\ pc = "returned"
     /\ \A k \in 1..Len(line) :
           line[k] \in {"\t", "\n"} => \A j \in k..Len(line) : line[j] \in Whitespace \ {" "})
      => Val(returned).value = WordValue(line, Val(returned).function, Val(returned).code)

\* ------------------------------------------------------------- Vector3D

\* the objects after call k of the log
ObjectsAfter(k) == IF k = Len(returned) THEN objects ELSE returned[k + 1].before

\* C22: for all vectors a and b with integer components, a + b - b == a and
\* a * k == k * a, and every arithmetic operation returns a new vector and
\* leaves the objects that existed before it, its operands among them, as
\* they were.
C22_VectorAlgebra ==
    pc = "objects"
      => /\ \A k \in 1..Len(returned) :
              /\ returned[k].result = Len(returned[k].before) + 1
              /\ Len(ObjectsAfter(k)) = Len(returned[k].before) + 1
              /\ \A i \in 1..Len(returned[k].before) :
                    ObjectsAfter(k)[i] = returned[k].before[i]
         /\ \A k \in 1..Len(returned) : \A m \in (k + 1)..Len(returned) :
              /\ (/\ returned[k].op = "add"
                  /\ returned[m].op = "sub"
                  /\ returned[m].self = returned[k].result
                  /\ returned[m].other = returned[k].other)
                   => objects[returned[m].result] = objects[returned[k].self]
              /\ (/\ returned[k].op \in {"mul", "rmul"}
                  /\ returned[m].op \in {"mul", "rmul"}
                  /\ returned[m].self = returned[k].self
                  /\ returned[m].other = returned[k].other)
                   => objects[returned[m].result] = objects[returned[k].result]

\* C22 witness: c = a + b, then c - b, made as a fourth object equal to a
\* while a, b and c are as they were.
C22_Witness ==
    /\ pc = "objects"
    /\ Len(returned) = 2
    /\ returned[1].op = "add" /\ returned[1].self = 1 /\ returned[1].other = 2
    /\ returned[2].op = "sub" /\ returned[2].self = 3 /\ returned[2].other = 2
    /\ objects[1] = Vector3D(FP(2), FP(1), -FP(3))
    /\ objects[2] = Vector3D(-FP(1), FP(1), 0)
    /\ objects[3] = Vector3D(FP(1), FP(2), -FP(3))
    /\ objects[4] = objects[1]

\* -------------------------------------------------------------- versions

\* spec k of call r as it is parsed, the package name put in front
ParsedSpec(r, k) == ParseRequirement(Prefixed(r.specs[k], r.package))

\* spec k of call r parses and the version of the call satisfies it
SatisfiedSpec(r, k) ==
    /\ ParsedSpec(r, k).ok
    /\ Contains(ParsedSpec(r, k), parse_version(r.version, r.base).version)

\* the rows of the function's examples: call r returned what the row says
ExampleRows(r) ==
    /\ r.specs = <<>> => r.exc = "" /\ ~r.value
    /\ r.version = Version120 /\ r.specs = <<ReqFooRange>> => r.exc = "" /\ r.value
    /\ r.version = Version120 /\ r.specs = <<ReqFooFrom130>> => r.exc = "" /\ ~r.value
    /\ r.version = Version120DashDev /\ r.specs = <<ReqFooFrom120>>
         => r.exc = "" /\ r.value
    /\ r.version = Version120DotDev /\ r.specs = <<ReqFooFrom120>>
         => r.exc = "" /\ r.value = r.base
    /\ r.version = Version130DotDev /\ r.specs = <<ReqFooRange>> => r.exc = "" /\ ~r.value
    /\ r.version = Version120 /\ r.specs = <<ReqRange12>>
         => IF r.package = None THEN r.exc = "ValueError" ELSE r.exc = "" /\ r.value
    /\ r.version = Version120 /\ r.specs = <<ReqMixedCaseRange>> => r.exc = "" /\ r.value
    /\ r.version = Version120 /\ r.specs = <<ReqRange11, ReqExactly130>> /\ r.package # None
         => r.exc = "" /\ ~r.value

\* C23 as stated: the call returns True exactly when the version (cut at the
\* first '-', reduced to its base version when base is set) satisfies at
\* least one spec of the list, False when it satisfies none, the empty list
\* included; a spec gets the package name in front when it lacks it, and a
\* spec that cannot be parsed raises ValueError.
C23_AnySpecDecides ==
    pc = "returned"
      => LET r == returned[1]
         IN  /\ (r.exc = "" /\ r.value) <=> \E k \in 1..Len(r.specs) : SatisfiedSpec(r, k)
             /\ (\E k \in 1..Len(r.specs) : ~ParsedSpec(r, k).ok) => r.exc = "ValueError"
             /\ (\A k \in 1..Len(r.specs) : ParsedSpec(r, k).ok /\ ~SatisfiedSpec(r, k))
                  => r.exc = "" /\ ~r.value
             /\ ExampleRows(r)

\* C23 as the code has it: the specs are taken in list order and the first
\* one that is unparsable or satisfied decides.  The call returns True when
\* a spec is satisfied and every spec before it parses, raises ValueError
\* when a spec does not parse and every spec before it parses and is not
\* satisfied, and returns False otherwise.
C23_FirstSpecDecides ==
    pc = "returned"
      => LET r == returned[1]
         IN  /\ r.exc \in {"", "ValueError"}
             /\ (r.exc = "" /\ r.value)
                  <=> \E k \in 1..Len(r.specs) :
                         /\ SatisfiedSpec(r, k)
                         /\ \A j \in 1..(k - 1) : ParsedSpec(r, j).ok
             /\ r.exc = "ValueError"
                  <=> \E k \in 1..Len(r.specs) :
                         /\ ~ParsedSpec(r, k).ok
                         /\ \A j \in 1..(k - 1) : ParsedSpec(r, j).ok /\ ~SatisfiedSpec(r, j)
             /\ ExampleRows(r)

\* C23 witness: without a package name, version 1.2.0 against a list whose
\* first spec it satisfies and whose second spec has no package name: True,
\* no ValueError.
C23_Witness ==
    /\ pc = "returned"
    /\ returned[1].version = Version120
    /\ returned[1].specs = <<ReqFooRange, ReqRange12>>
    /\ returned[1].package = None
    /\ returned[1].exc = ""
    /\ returned[1].value

\* ------------------------------------------------------ arcs as moves

\* a G2/G3 line with target, centre offset and E, the centre away from the
\* current position (an arc that is not negligible)
IsArc(l) ==
    /\ IsMotion(l, 2) \/ IsMotion(l, 3)
    /\ \A w \in {"X", "Y", "I", "J", "E"} : getCodeFloat(l, w) # None
    /\ getCodeFloat(l, "I") # Some(0) \/ getCodeFloat(l, "J") # Some(0)

\* the extrusion delta a line commands: its E word times the flow
\* multiplier, less the tool's current E in absolute extrusion mode
CommandedDelta(l, mem) ==
    IF mem.absoluteE
    THEN FMul(mem.flowrate_multiplicator, Val(getCodeFloat(l, "E")))
            - PyGet(mem.currentE, mem.currentExtruder)
    ELSE FMul(mem.flowrate_multiplicator, Val(getCodeFloat(l, "E")))

\* C24: a G2/G3 line describing a non-negligible arc with a positive
\* extrusion delta, in either extrusion mode, is processed without an
\* exception; after it the X/Y position is the commanded target, the active
\* tool's cumulative extrusion has grown by exactly the commanded delta, and
\* the commanded feed (when given and non-zero) is the current feedrate.
C24_ArcReplayedAsLinearMoves ==
    [][(/\ pc = "line" /\ pc' # "line"
        /\ IsArc(line)
        /\ memory.posAbs
        /\ PyValid(memory.currentE, memory.currentExtruder)
        /\ CommandedDelta(line, memory) > 0)
         => /\ pc' = "throttle"
            /\ memory'.pos.x = FMul(memory.scale, Val(getCodeFloat(line, "X")))
                                  + memory.posOffset.x
            /\ memory'.pos.y = FMul(memory.scale, Val(getCodeFloat(line, "Y")))
                                  + memory.posOffset.y
            /\ PyGet(memory'.totalExtrusion, memory.currentExtruder)
                  = PyGet(memory.totalExtrusion, memory.currentExtruder)
                      + CommandedDelta(line, memory)
            /\ getCodeFloat(line, "F") \notin {None, Some(0)}
                 => memory'.feedrate
                      = FMul(memory.feedrate_multiplicator, Val(getCodeFloat(line, "F")))]_vars

\* C24, the failing case: G2 X1 Y1 I1 J0 E1 as the first line, a quarter
\* circle of radius 1 with E from 0 to 1, ended the scan with an
\* AttributeError; the position and the extrusion are as before the line.
C24_Witness ==
    /\ pc = "raised"
    /\ exc = "AttributeError"
    /\ hist = <<LineArc>>
    /\ memory.pos = Vector3D(0, 0, 0)
    /\ memory.totalExtrusion = <<0>>

\* ------------------------------------------------------ firmware retract

\* a line without comment of the miscellaneous family M
IsMisc(l, M) ==
    /\ Find(l, ";", 1) = 0
    /\ getCodeInt(l, "G") = None
    /\ getCodeInt(l, "M") = Some(M)

\* among the first n lines, the M lines that give both S and F
SettingLines(M, n) ==
    {i \in 1..n : /\ IsMisc(hist[i], M)
                  /\ getCodeFloat(hist[i], "S") # None
                  /\ getCodeFloat(hist[i], "F") # None}

\* the last of them
LastSetting(M, n) == CHOOSE i \in SettingLines(M, n) : \A j \in SettingLines(M, n) : j <= i

\* the retract distance stored after n lines: the S of the last M207 S F
StoredDistance(n) ==
    IF SettingLines(207, n) = {} THEN 0
    ELSE Val(getCodeFloat(hist[LastSetting(207, n)], "S"))

\* the retract duration set after n lines: S / F of the last M207 S F
RetractDuration(n) ==
    IF SettingLines(207, n) = {} THEN 0
    ELSE FDiv(Val(getCodeFloat(hist[LastSetting(207, n)], "S")),
              Val(getCodeFloat(hist[LastSetting(207, n)], "F")))

\* the recover duration set after n lines: for the last M208 S F, the
\* distance stored when that line was processed plus its S, over its F
RecoverDuration(n) ==
    IF SettingLines(208, n) = {} THEN 0
    ELSE FDiv(StoredDistance(LastSetting(208, n) - 1)
                + Val(getCodeFloat(hist[LastSetting(208, n)], "S")),
              Val(getCodeFloat(hist[LastSetting(208, n)], "F")))

\* C25: a G10 line adds to the total time the retract duration set by the
\* most recent M207 S F line (S / F, zero when there was none), a G11 line
\* adds the recover duration set by the most recent M208 S F line ((distance
\* stored when that line was processed + S) / F, zero when there was none),
\* and neither changes anything else; an M207 or M208 line lacking S or F
\* changes nothing.
C25_FirmwareRetractTimes ==
    [][(pc = "line" /\ pc' # "line" /\ Find(line, ";", 1) = 0)
         => /\ IsMotion(line, 10)
                 => /\ pc' = "throttle"
                    /\ memory' = [memory EXCEPT !.totalMoveTimeMinute =
                                                   @ + RetractDuration(filePos - 1)]
            /\ IsMotion(line, 11)
                 => /\ pc' = "throttle"
                    /\ memory' = [memory EXCEPT !.totalMoveTimeMinute =
                                                   @ + RecoverDuration(filePos - 1)]
            /\ (/\ IsMisc(line, 207) \/ IsMisc(line, 208)
                /\ getCodeFloat(line, "S") = None \/ getCodeFloat(line, "F") = None)
                 => /\ pc' = "throttle"
                    /\ memory' = memory]_vars

\* C25 witness: M207 S1 F60, M208 S1 F60, G11: the recover took (1 + 1) / 60.
C25_Witness ==
    /\ pc = "throttle"
    /\ hist = <<LineRetractSet, LineRecoverSet, LineFirmwareRecover>>
    /\ trace[2].fwretractDist = FP(1)
    /\ memory.totalMoveTimeMinute = FDiv(FP(2), FP(60))
    /\ memory.totalMoveTimeMinute > 0

\* ------------------------------------------------------ settings lines

\* what a settings line has to leave alone: position, accumulated offset,
\* stored feedrate, the per-tool extrusion values and the total time
KeptState(mem) ==
    <<mem.pos, mem.posOffset, mem.feedrate, mem.currentE, mem.totalExtrusion,
      mem.maxExtrusion, mem.totalMoveTimeMinute, mem.currentExtruder>>

\* the settings: units, position mode, extrusion mode, feed and flow override
UnitsSetting(mem) == mem.scale

PositionMode(mem) == mem.posAbs

ExtrusionMode(mem) == mem.absoluteE

FeedOverride(mem) == mem.feedrate_multiplicator

FlowOverride(mem) == mem.flowrate_multiplicator

TerminalCalls == {k \in 1..Len(progressLog) : progressLog[k] = FP(100)}

\* C27: in a scan of n lines that completes, the throttle hook, when
\* supplied, has been invoked n times: call k comes after the state update
\* of line k and before line k + 1 is checked for abort and taken.  The
\* terminal progress callback, when supplied, is invoked once, with 100.0,
\* after the last throttle call and before the result fields are written; in
\* a scan ended by AnalysisAborted it is not invoked.
C27_HooksInOrder ==
    /\ [](/\ ~cfg.call.throttle => throttleCount = 0
          /\ cfg.call.throttle /\ pc \in {"check", "final", "finish", "done", "aborted"}
               => throttleCount = filePos
          /\ cfg.call.throttle /\ pc \in {"line", "throttle"}
               => throttleCount = filePos - 1
          /\ pc = "done" => filePos = cfg.nLines
          /\ pc = "done" /\ cfg.call.callback
               => /\ Cardinality(TerminalCalls) = 1
                  /\ progressLog[Len(progressLog)] = FP(100)
          /\ pc = "done" /\ ~cfg.call.callback => progressLog = <<>>
          /\ pc \in {"aborted", "check", "line", "throttle"} => TerminalCalls = {})
    /\ [][throttleCount' # throttleCount
            => /\ pc = "throttle" /\ pc' = "check"
               /\ throttleCount' = filePos
               /\ memory' = memory /\ minMax' = minMax
               /\ cfg.nLines <= MaxLines => Len(trace) = filePos]_vars
    /\ [][TerminalCalls' # TerminalCalls
            => /\ pc = "final"
               /\ filePos = cfg.nLines
               /\ cfg.call.throttle => throttleCount' = cfg.nLines
               /\ result = ResultInit /\ result' = ResultInit]_vars
    /\ [][result' # result => pc = "finish" /\ pc' = "done"]_vars

\* C27 witness: a list of 1000 lines scanned with both hooks: 1000 throttle
\* calls, the periodic callback once with 1.0, the terminal one with 100.0.
C27_Witness ==
    /\ pc = "done"
    /\ cfg.nLines = ProgressEvery
    /\ cfg.call.throttle
    /\ throttleCount = ProgressEvery
    /\ progressLog = <<FP(1), FP(100)>>

\* ------------------------------------------------------------- feedrate

\* the F word of a line times the feed multiplier, absent when the line has
\* no F
CommandedFeed(l, mem) == Scaled(getCodeFloat(l, "F"), mem.feedrate_multiplicator)

\* C28: the current feedrate is never zero.  It starts as the smaller of the
\* profile's X and Y speeds, or 2000 when that is zero; only a linear move
\* changes it, and only to its F times the feed multiplier when that is
\* present and not zero; no move ends in a division by zero.
C28_FeedrateNeverZero ==
    /\ [](/\ memory.feedrate # 0
          /\ exc # "ZeroDivisionError"
          /\ filePos = 0
               => memory.feedrate =
                     IF cfg.call.profile.speedX = 0 \/ cfg.call.profile.speedY = 0
                     THEN FP(2000)
                     ELSE IF cfg.call.profile.speedX <= cfg.call.profile.speedY
                          THEN FP(cfg.call.profile.speedX)
                          ELSE FP(cfg.call.profile.speedY))
    /\ [][memory'.feedrate # memory.feedrate
            => /\ pc = "line"
               /\ IsMotion(line, 0) \/ IsMotion(line, 1)
               /\ CommandedFeed(line, memory) \notin {None, Some(0)}
               /\ memory'.feedrate = Val(CommandedFeed(line, memory))]_vars
    /\ [][(/\ pc = "line" /\ pc' # "line"
           /\ IsMotion(line, 0) \/ IsMotion(line, 1)
           /\ CommandedFeed(line, memory) \in {None, Some(0)})
            => pc' = "throttle" /\ memory'.feedrate = memory.feedrate]_vars

\* C28 witness: with both axis speeds zero, after M220 S0 a move with F600
\* and a move with F0 were timed at the seeded feedrate of 2000.
C28_Witness ==
    /\ pc = "throttle"
    /\ cfg.call.profile = ProfileNoSpeed
    /\ hist = <<LineFeedOverrideZero, LineMoveE5, LineMoveF0>>
    /\ memory.feedrate_multiplicator = 0
    /\ memory.feedrate = FP(2000)
    /\ memory.totalMoveTimeMinute > 0

\* ------------------------------------------------ absolute partial moves

\* C29: in absolute-position mode a linear move puts each axis it gives at
\* the given coordinate times the scale plus the accumulated offset, and
\* leaves the position on every axis it does not give unchanged, whatever
\* the scale (also after G20) and the offset (also after G92 or a tool
\* change).
C29_AbsoluteMoveKeepsOtherAxes ==
    [][(/\ pc = "line" /\ pc' # "line"
        /\ IsMotion(line, 0) \/ IsMotion(line, 1)
        /\ memory.posAbs)
         => \A c \in Axes :
               memory'.pos[c] =
                  IF getCodeFloat(line, AxisWord(c)) # None
                  THEN FMul(memory.scale, Val(getCodeFloat(line, AxisWord(c))))
                          + memory.posOffset[c]
                  ELSE memory.pos[c]]_vars

\* C29, the failing case: at (10, 5, 0), after G20, G1 X5 gives no Y and
\* moved y from 5 to 127 (5 times 25.4).
C29_Witness ==
    /\ pc = "throttle"
    /\ hist = <<LineTravel, LineInches, LineMoveX5>>
    /\ trace[2].pos = Vector3D(FP(10), FP(5), 0)
    /\ trace[2].posAbs
    /\ memory.pos = Vector3D(127 * Unit, 127 * Unit, 0)

\* What does hold of an absolute move: an axis not given is unchanged while
\* the scale is 1 and the offset of that axis is zero; in general it becomes
\* its old value times the scale plus the offset.
AbsoluteMoveAsCoded ==
    [][(/\ pc = "line" /\ pc' # "line"
        /\ IsMotion(line, 0) \/ IsMotion(line, 1)
        /\ memory.posAbs)
         => \A c \in Axes :
               /\ memory'.pos[c] =
                     FMul(memory.scale,
                          IF getCodeFloat(line, AxisWord(c)) # None
                          THEN Val(getCodeFloat(line, AxisWord(c)))
                          ELSE memory.pos[c])
                       + memory.posOffset[c]
               /\ (/\ getCodeFloat(line, AxisWord(c)) = None
                   /\ memory.scale = FP(1)
                   /\ memory.posOffset[c] = 0)
                    => memory'.pos[c] = memory.pos[c]]_vars

\* ------------------------------------------ cumulative and maximum extrusion

\* C30: in every reachable state and for every tool the running-maximum
\* extrusion equals the cumulative extrusion; the cumulative extrusion of a
\* tool changes only in the processing of a G0/G1 line with an E word, only
\* for the active tool, and only by the strictly positive relative delta of
\* that line, so it never decreases; and in relative E mode a retraction
\* followed by an equal re-prime leaves it higher by the re-primed amount.
C30_MaxEqualsTotal ==
    /\ [](/\ Len(memory.maxExtrusion) = Len(memory.totalExtrusion)
          /\ \A i \in 1..Len(memory.totalExtrusion) :
                memory.maxExtrusion[i] = memory.totalExtrusion[i])
    /\ [][\A i \in 1..Len(memory.totalExtrusion) :
             /\ i <= Len(memory'.totalExtrusion)
             /\ memory'.totalExtrusion[i] >= memory.totalExtrusion[i]
             /\ memory'.totalExtrusion[i] # memory.totalExtrusion[i]
                  => /\ pc = "line"
                     /\ IsMotion(line, 0) \/ IsMotion(line, 1)
                     /\ getCodeFloat(line, "E") # None
                     /\ i = PyPos(memory.totalExtrusion, memory.currentExtruder)
                     /\ RelativeE(memory, Val(getCodeFloat(line, "E"))) > 0
                     /\ memory'.totalExtrusion[i] =
                           memory.totalExtrusion[i]
                             + RelativeE(memory, Val(getCodeFloat(line, "E")))]_vars
    /\ [](\A k \in 2..Len(trace) :
             (/\ ~trace[k].absoluteE
              /\ hist[k - 1] = LineRetract
              /\ hist[k] = LinePrime
              /\ k >= 3)
               => /\ trace[k - 1].totalExtrusion = trace[k - 2].totalExtrusion
                  /\ PyGet(trace[k].totalExtrusion, trace[k].currentExtruder)
                       = PyGet(trace[k - 2].totalExtrusion, trace[k].currentExtruder)
                           + FP(1))

\* C30: M83, then a retraction of 1 and a re-prime of 1: the retraction
\* changed nothing and both counters stand at 1.
C30_Witness ==
    /\ pc = "done"
    /\ hist = <<LineRelativeE, LineRetract, LinePrime>>
    /\ trace[2].totalExtrusion = <<0>>
    /\ memory.totalExtrusion = <<FP(1)>>
    /\ memory.maxExtrusion = <<FP(1)>>

\* ------------------------------------------------------ the active tool index

\* C31: after any sequence of lines, tool-select lines with a negative index
\* or the configured maximum included, the active tool index is at least 0,
\* at most the configured maximum and smaller than the length of each
\* per-tool array.
C31_ToolIndexInRange ==
    /\ 0 <= memory.currentExtruder
    /\ memory.currentExtruder <= maxExtruders
    /\ memory.currentExtruder < Len(memory.currentE)
    /\ memory.currentExtruder < Len(memory.maxExtrusion)
    /\ memory.currentExtruder < Len(memory.totalExtrusion)

\* C31, the failing case: T1, then T-1 is accepted and selects index -1, and
\* the extrusion of the following move lands on the entry of tool 1.
C31_Witness ==
    /\ pc = "done"
    /\ hist = <<LineTool1, LineToolMinus1, LineMoveE5>>
    /\ memory.currentExtruder = -1
    /\ trace[2].totalExtrusion = <<0, 0>>
    /\ memory.totalExtrusion = <<0, FP(5)>>

\* What does hold of the active tool index: it is never above the configured
\* maximum (the maximum itself is accepted) nor above the last index of any
\* per-tool array; it is negative once a negative index was selected, and
\* then addresses the arrays from their end.
ToolIndexAsCoded ==
    /\ memory.currentExtruder \in -1..maxExtruders
    /\ memory.currentExtruder < Len(memory.currentE)
    /\ memory.currentExtruder < Len(memory.maxExtrusion)
    /\ memory.currentExtruder < Len(memory.totalExtrusion)
    /\ PyValid(memory.currentE, memory.currentExtruder)
    /\ memory.currentExtruder < 0
         => \E i \in 1..Len(hist) : hist[i] = LineToolMinus1

\* ------------------------------------------------------------------ comments

\* the line with its comment removed: the characters before the first marker
RECURSIVE UpToMarker(_)
UpToMarker(l) ==
    IF l = <<>> \/ Head(l) = ";" THEN <<>>
    ELSE <<Head(l)>> \o UpToMarker(Tail(l))

\* the outcome of dispatching line l in the current state
Dispatched(l) == Dispatch(memory, minMax, l)

\* C32: text after the comment marker never reaches dispatch: for every line,
\* class memory and the bounding box after the line are those after the line
\* with its comment removed, the scan goes on or ends as it would for that
\* line, and only a line with a comment changes the detected filament
\* diameter.
C32_CommentNeverDispatched ==
    [][(pc = "line" /\ pc' # "line")
         => /\ memory' = Dispatched(UpToMarker(line)).mem
            /\ minMax' = Dispatched(UpToMarker(line)).mm
            /\ exc' = Dispatched(UpToMarker(line)).exc
            /\ pc' = IF Dispatched(UpToMarker(line)).exc # "" THEN "raised" ELSE "throttle"
            /\ (filamentDiameter' # filamentDiameter => Find(line, ";", 1) > 0)]_vars

\* C32, the failing case: "G1 X5 ;filament_diameter" ended the scan with
\* IndexError before the move was dispatched; without the comment the line
\* moves x to 5.
C32_Witness ==
    /\ pc = "raised"
    /\ exc = "IndexError"
    /\ hist = <<LineMoveDiameterNoEq>>
    /\ memory.pos = Vector3D(0, 0, 0)
    /\ Dispatch(MemoryInit(cfg.call.profile), MinMax3DInit, LineMoveX5).mem.pos
         = Vector3D(FP(5), 0, 0)

\* What does hold of comments: whenever reading the comment raises nothing,
\* the line is dispatched as the line with its comment removed.
CommentCutBeforeDispatch ==
    [][(/\ pc = "line" /\ pc' # "line"
        /\ CommentStep(filamentDiameter, line).exc = "")
         => /\ memory' = Dispatched(UpToMarker(line)).mem
            /\ minMax' = Dispatched(UpToMarker(line)).mm
            /\ exc' = Dispatched(UpToMarker(line)).exc
            /\ pc' = IF Dispatched(UpToMarker(line)).exc # "" THEN "raised" ELSE "throttle"
            /\ (filamentDiameter' # filamentDiameter => Find(line, ";", 1) > 0)]_vars

\* a state in which a comment holding command words was cut: after
\* "G1 X5 ;G1 Y9 E5" only x moved and nothing was extruded
CommentCutReached ==
    /\ pc = "done"
    /\ hist = <<LineMoveCommentMove, LineCommentMove, LineCommentTool>>
    /\ memory.pos = Vector3D(FP(5), 0, 0)
    /\ memory.totalExtrusion = <<0>>
    /\ memory.currentExtruder = 0

=============================================================================
